---- MODULE Spec2Model ----
(***************************************************************************)
(* Model of megur0/simple-server: the route table, the middleware chain    *)
(* composer with its panic boundary, and the request binder.               *)
(* Strings that the code takes apart (paths, parameter values) are         *)
(* sequences of one-character strings; opaque strings stay TLA+ strings.   *)
(***************************************************************************)
EXTENDS Integers, Sequences, FiniteSets, TLC

VARIABLES
    router,                         \* map[string]route, keyed by method+" "+path
    commonMiddleware,               \* []Middleware
    commonAfterMiddleware,          \* []Middleware
    noMethodResponse,               \* []byte
    noMethodContentType,            \* string
    internalServerErrorResponse,    \* []byte
    internalServerErrorContentType, \* string
    registered,                     \* history: the (method, path) pairs of the registrations that returned
    fault,                          \* <<>> or <<f>>: the panic of a registration call, not yet recovered by its caller
    pc,                             \* position of the request goroutine
    r,                              \* the in-flight *http.Request
    idx,                            \* the index argument of constructHandler*Routing for the stage about to run
    ru,                             \* <<>> or <<route>>: the route picked by routingHandler
    trace,                          \* history: the stages that ran for the request, in order
    writes,                         \* the SetResponse calls made on the ResponseWriter, in order
    afterPanic,                     \* some entered middleware panics once its next.ServeHTTP returns
    target,                         \* the struct handed to Bind
    bound,                          \* how the last call of Bind on the request ended
    readBack,                       \* <<>> or <<b>>: what reading r.Body after Bind returned
    rebound,                        \* <<>> or <<res>>: how a second call of Bind on the request ended
    peer,                           \* the goroutine of a second request, served at the same time
    shutdown,                       \* var shutdown chan any
    server,                         \* position of the goroutine that runs StartServer
    caller                          \* position of each goroutine that calls Shutdown

vars == <<router, commonMiddleware, commonAfterMiddleware, noMethodResponse,
          noMethodContentType, internalServerErrorResponse,
          internalServerErrorContentType, registered, fault, pc, r, idx, ru,
          trace, writes, afterPanic, target, bound, readBack, rebound, peer,
          shutdown, server, caller>>

configVars == <<router, commonMiddleware, commonAfterMiddleware, noMethodResponse,
                noMethodContentType, internalServerErrorResponse,
                internalServerErrorContentType, registered, fault>>

requestVars == <<pc, r, idx, ru, trace, writes, afterPanic, target, bound, readBack>>

bindVars == <<target, bound, readBack>>

\* what runs beside the goroutine of the request in flight
otherVars == <<rebound, peer, shutdown, server, caller>>

-----------------------------------------------------------------------------
(* Bounds *)

MaxRoutes == 2      \* registrations that return
MaxMw == 2          \* length of a middleware list in Spec
MaxPreMw == 1       \* length of the pre-routing middleware list in SpecRoute

-----------------------------------------------------------------------------
(* Program constants *)

ContentTypeJSON == "application/json"
ContentTypePlainText == "text/plain"
ContentTypeFormURLEnc == "application/x-www-form-urlencoded"
MethodGet == "GET"
MethodPost == "POST"
StatusOK == 200
StatusBadRequest == 400
StatusNotFound == 404
StatusInternalServerError == 500
PanicSameRoot == "there already route %s exists"
DefaultNoMethodResponse == "{\"message\":\"no method\"}"
DefaultInternalServerErrorResponse == "{\"message\":\"internal server error\"}"

-----------------------------------------------------------------------------
(* strings *)

\* strings.HasSuffix
HasSuffix(s, suffix) ==
    /\ Len(suffix) <= Len(s)
    /\ SubSeq(s, Len(s) - Len(suffix) + 1, Len(s)) = suffix

\* strings.TrimSuffix
TrimSuffix(s, suffix) ==
    IF HasSuffix(s, suffix) THEN SubSeq(s, 1, Len(s) - Len(suffix)) ELSE s

\* strings.Split(s, sep) for a one-character separator: the pieces between
\* the separators, Count(sep)+1 of them.
RECURSIVE SplitFrom(_, _, _, _)
SplitFrom(s, sep, i, cur) ==
    IF i > Len(s) THEN <<cur>>
    ELSE IF s[i] = sep THEN <<cur>> \o SplitFrom(s, sep, i + 1, <<>>)
    ELSE SplitFrom(s, sep, i + 1, Append(cur, s[i]))

Split(s, sep) == SplitFrom(s, sep, 1, <<>>)

-----------------------------------------------------------------------------
(* Inputs *)

Methods == {MethodGet, MethodPost}

\* the handler written for a route: Get/Post are handed one closure per call
HandlerFor(method, path) == [method |-> method, path |-> path]

\* the paths handed to Get/Post
RegPaths == {
    <<"/", "a">>,
    <<"/", "a", "/", ":", "n">>,
    <<"/", "a", "/", ":", "m">>,
    <<"/", "a", "/", "b">>,
    <<"/", ":", "n">> }

\* the request paths
ReqPaths == {
    <<"/", "a">>,
    <<"/", "a", "/">>,
    <<"/", "a", "/", "b">>,
    <<"/", "a", "/", "1">>,
    <<"/", "a", "/", "b", "/", "1">>,
    <<"/", "/">>,
    <<"/", "1">>,
    <<"/", ":">> }

\* a middleware list handed to a tier: the first k of the tier's middleware
MwList(tier, max) ==
    { [i \in 1..k |-> <<tier, i>>] : k \in 0..max }

NoMethodSettings ==
    { [contentType |-> ContentTypeJSON, data |-> DefaultNoMethodResponse],
      [contentType |-> ContentTypePlainText, data |-> "not found"] }

InternalServerErrorSettings ==
    { [contentType |-> ContentTypeJSON, data |-> DefaultInternalServerErrorResponse],
      [contentType |-> ContentTypePlainText, data |-> "oops"] }

\* what a middleware does with one request
MiddlewareBehaviours == {"next", "stop", "panic", "next_then_panic"}

\* what a handler does with one request
HandlerBehaviours == {"respond", "panic", "respond_then_panic"}

\* and with the handlers that bind the request first
BindingHandlerBehaviours == HandlerBehaviours \cup {"bind"}

-----------------------------------------------------------------------------
(* Route table *)

RouteKey(method, path) == [method |-> method, path |-> path]

\* getRoute looking the path up under any method: a fault
\* C9_NoMethodResponse must detect
getRouteAnyMethod(path, method) ==
    IF \E k \in DOMAIN router : k.path = path
    THEN <<router[CHOOSE k \in DOMAIN router : k.path = path]>>
    ELSE <<>>

\* getRoute: <<>> for nil
getRoute(path, method) ==
    IF RouteKey(method, path) \in DOMAIN router
    THEN <<router[RouteKey(method, path)]>>
    ELSE <<>>

\* setHandler keeping the path as written, parameter name included: a
\* fault C5_SameRoute must detect
setHandlerTemplateAsWritten(path) ==
    LET paths == Split(path, ":") IN
    [path |-> path, pathParamName |-> IF Len(paths) > 1 THEN paths[Len(paths)] ELSE <<>>]

\* the (path, pathParamName) setHandler computes from the path it is given
setHandlerTemplate(path) ==
    LET paths == Split(path, ":") IN
    IF Len(paths) > 1
    THEN [path |-> Append(paths[1], ":"), pathParamName |-> paths[Len(paths)]]
    ELSE [path |-> path, pathParamName |-> <<>>]

\* setHandler storing the route before it looks for an earlier one: a fault
\* C30_DuplicateLeavesTable must detect
setHandlerStoreFirst(path, hr, method, middleware) ==
    LET t == setHandlerTemplate(path) IN
    /\ pc = "idle"
    /\ fault = <<>>
    /\ getRoute(t.path, method) = <<>> => Cardinality(registered) < MaxRoutes
    /\ router' = [k \in DOMAIN router \cup {RouteKey(method, t.path)} |->
                    IF k = RouteKey(method, t.path)
                    THEN [handler |-> hr,
                          middleware |-> middleware,
                          pathParamName |-> t.pathParamName]
                    ELSE router[k]]
    /\ IF getRoute(t.path, method) # <<>>
       THEN /\ fault' = <<[msg |-> PanicSameRoot, arg |-> t.path,
                           method |-> method, path |-> path]>>
            /\ UNCHANGED registered
       ELSE /\ registered' = registered \cup {[method |-> method, path |-> path]}
            /\ fault' = fault
    /\ UNCHANGED <<commonMiddleware, commonAfterMiddleware, noMethodResponse,
                   noMethodContentType, internalServerErrorResponse,
                   internalServerErrorContentType>>
    /\ UNCHANGED requestVars
    /\ UNCHANGED otherVars

setHandler(path, hr, method, middleware) ==
    LET t == setHandlerTemplate(path) IN
    /\ pc = "idle"
    /\ fault = <<>>
    /\ getRoute(t.path, method) = <<>> => Cardinality(registered) < MaxRoutes
    /\ IF getRoute(t.path, method) # <<>>
       THEN /\ fault' = <<[msg |-> PanicSameRoot, arg |-> t.path,
                           method |-> method, path |-> path]>>
            /\ UNCHANGED <<router, registered>>
       ELSE /\ router' = [k \in DOMAIN router \cup {RouteKey(method, t.path)} |->
                            IF k = RouteKey(method, t.path)
                            THEN [handler |-> hr,
                                  middleware |-> middleware,
                                  pathParamName |-> t.pathParamName]
                            ELSE router[k]]
            /\ registered' = registered \cup {[method |-> method, path |-> path]}
            /\ fault' = fault
    /\ UNCHANGED <<commonMiddleware, commonAfterMiddleware, noMethodResponse,
                   noMethodContentType, internalServerErrorResponse,
                   internalServerErrorContentType>>
    /\ UNCHANGED requestVars
    /\ UNCHANGED otherVars

Get(paths, max) ==
    \E path \in paths, middleware \in MwList("route", max) :
        setHandler(path, HandlerFor(MethodGet, path), MethodGet, middleware)

Post(paths, max) ==
    \E path \in paths, middleware \in MwList("route", max) :
        setHandler(path, HandlerFor(MethodPost, path), MethodPost, middleware)

\* the caller of Get/Post recovers the panic (as TestSameRoute does) and goes on
RecoverRegistration ==
    /\ fault # <<>>
    /\ fault' = <<>>
    /\ UNCHANGED <<router, commonMiddleware, commonAfterMiddleware, noMethodResponse,
                   noMethodContentType, internalServerErrorResponse,
                   internalServerErrorContentType, registered>>
    /\ UNCHANGED requestVars
    /\ UNCHANGED otherVars

\* SetCommonMiddleware adding its arguments to the list: a fault
\* C22_RoutesKeptListsReplaced must detect
SetCommonMiddlewareAppend(max) ==
    \E m \in MwList("pre", max) :
        /\ pc = "idle"
        /\ fault = <<>>
        /\ Len(commonMiddleware) <= max
        /\ commonMiddleware' = commonMiddleware \o m
        /\ UNCHANGED <<router, commonAfterMiddleware, noMethodResponse,
                       noMethodContentType, internalServerErrorResponse,
                       internalServerErrorContentType, registered, fault>>
        /\ UNCHANGED requestVars
        /\ UNCHANGED otherVars

SetCommonMiddleware(max) ==
    \E m \in MwList("pre", max) :
        /\ pc = "idle"
        /\ fault = <<>>
        /\ commonMiddleware' = m
        /\ UNCHANGED <<router, commonAfterMiddleware, noMethodResponse,
                       noMethodContentType, internalServerErrorResponse,
                       internalServerErrorContentType, registered, fault>>
        /\ UNCHANGED requestVars
        /\ UNCHANGED otherVars

SetCommonAfterMiddleware(max) ==
    \E m \in MwList("post", max) :
        /\ pc = "idle"
        /\ fault = <<>>
        /\ commonAfterMiddleware' = m
        /\ UNCHANGED <<router, commonMiddleware, noMethodResponse,
                       noMethodContentType, internalServerErrorResponse,
                       internalServerErrorContentType, registered, fault>>
        /\ UNCHANGED requestVars
        /\ UNCHANGED otherVars

SetNoMethodResponse ==
    \E s \in NoMethodSettings :
        /\ pc = "idle"
        /\ fault = <<>>
        /\ noMethodContentType' = s.contentType
        /\ noMethodResponse' = s.data
        /\ UNCHANGED <<router, commonMiddleware, commonAfterMiddleware,
                       internalServerErrorResponse,
                       internalServerErrorContentType, registered, fault>>
        /\ UNCHANGED requestVars
        /\ UNCHANGED otherVars

SetInternalServerErrorResponse ==
    \E s \in InternalServerErrorSettings :
        /\ pc = "idle"
        /\ fault = <<>>
        /\ internalServerErrorContentType' = s.contentType
        /\ internalServerErrorResponse' = s.data
        /\ UNCHANGED <<router, commonMiddleware, commonAfterMiddleware,
                       noMethodResponse, noMethodContentType, registered, fault>>
        /\ UNCHANGED requestVars
        /\ UNCHANGED otherVars

-----------------------------------------------------------------------------
(* The request binder *)

\* a comparison of the whole header value in place of strings.HasPrefix: a
\* fault C15_ContentTypeGate must detect
HasPrefixWhole(s, prefix) == s = prefix

\* strings.HasPrefix
HasPrefix(s, prefix) ==
    /\ Len(prefix) <= Len(s)
    /\ SubSeq(s, 1, Len(prefix)) = prefix

\* Content-Type header values, cut where the code looks for a prefix
ContentTypes == {
    <<>>,
    <<ContentTypeJSON>>,
    <<ContentTypeJSON, "; charset=utf-8">>,
    <<ContentTypeFormURLEnc>>,
    <<ContentTypePlainText>> }

\* request bodies
BodyJSONString == "{\"j\":\"x\"}"
BodyJSONNumber == "{\"j\":4}"
BodyJSONWellFormed == "{\"j\":\"v\"}"
BodyJSONQuery == "{\"q\":4}"
BodyJSONQueryString == "{\"q\":\"x\"}"
BodyJSONTruncated == "{\"j\":4"
BodyForm == "f=1"
BodyFormEmpty == "f="
BodyFormBadEscape == "f=%zz"
Bodies == {"", BodyJSONString, BodyJSONNumber, BodyJSONWellFormed, BodyJSONQuery,
           BodyJSONQueryString, BodyJSONTruncated, BodyForm, BodyFormEmpty,
           BodyFormBadEscape}

\* an io.Reader over a string: what is left to read
Reader(str) == [isNil |-> FALSE, rest |-> str]
NilReader == [isNil |-> TRUE, rest |-> ""]

\* IoReaderToString: the string read, and the reader left drained
IoReaderToString(ir) ==
    IF ir.isNil
    THEN [str |-> "", reader |-> ir]
    ELSE [str |-> ir.rest, reader |-> Reader("")]

\* url.Values: a function from key to the sequence of its values
NoValues == <<>>
AddValues(a, b) ==
    [k \in DOMAIN a \cup DOMAIN b |->
        (IF k \in DOMAIN a THEN a[k] ELSE <<>>) \o (IF k \in DOMAIN b THEN b[k] ELSE <<>>)]

\* an error value is the chain of errors that Unwrap walks, outermost
\* first; nil is the empty chain. A link carries the type of the error and
\* what it holds beside the wrapped error
Link(type, field, json, msg) == [type |-> type, field |-> field, json |-> json, msg |-> msg]
NilError == <<>>
errorsNew(msg) == <<Link("errors.errorString", <<>>, "", msg)>>

\* the errors Bind returns
ErrUnsupportedContentType == errorsNew("Content-Type is not supported:")
wrapByErrBind(err) == <<Link("ErrBind", <<>>, "", "")>> \o err
ErrRequestJsonSyntaxError(json, err) ==
    <<Link("ErrRequestJsonSyntaxError", <<>>, json, "")>> \o err
ErrRequestJsonSomethingInvalid(json, err) ==
    <<Link("ErrRequestJsonSomethingInvalid", <<>>, json, "")>> \o err
ErrRequestFieldFormat(field, err) ==
    <<Link("ErrRequestFieldFormat", field, "", "")>> \o err
ErrRequestFormParse(err) == <<Link("ErrRequestFormParse", <<>>, "", "")>> \o err

\* error types without an Unwrap method: a fault C14_ErrorTaxonomy must
\* detect
UnwrapMissing(err) == <<>>

\* the Unwrap method of the error types: the wrapped error
Unwrap(err) == IF err = <<>> THEN <<>> ELSE Tail(err)

\* errors.As: the error, or one that Unwrap reaches from it, has the type
RECURSIVE errorsAs(_, _)
errorsAs(err, type) ==
    /\ err # <<>>
    /\ \/ err[1].type = type
       \/ errorsAs(Unwrap(err), type)

\* the error errors.As finds: the outermost of the type
errorsTarget(err, type) ==
    err[CHOOSE i \in 1..Len(err) :
            /\ err[i].type = type
            /\ \A j \in 1..(i - 1) : err[j].type # type]

\* a field of a bind target: its Go name, its tags ("" when the tag is
\* missing), its type, and whether it is a pointer to that type
Field(goName, tag, name, type, ptr) ==
    [goName |-> goName,
     json |-> IF tag = "json" THEN name ELSE <<>>,
     param |-> IF tag = "param" THEN name ELSE <<>>,
     query |-> IF tag = "query" THEN name ELSE <<>>,
     form |-> IF tag = "form" THEN name ELSE <<>>,
     type |-> type, ptr |-> ptr]

\* the value of a field: nil for a pointer that is not set
\* int is the decimal numeral of a number (a "-" for a negative one, then
\* the digits without leading zeros), str a text
Value(isNil, int, str) == [isNil |-> isNil, int |-> int, str |-> str]
ZeroNumeral == <<"0">>
ZeroValue(f) == Value(f.ptr, ZeroNumeral, <<>>)

\* a fresh bind target: every field at its zero value
NewTarget(fields) ==
    [kind |-> "struct", fields |-> fields,
     vals |-> [i \in 1..Len(fields) |-> ZeroValue(fields[i])]]

\* every request taken for a form request: a fault C18_FaultAborts must
\* detect
isFormRequestAlways(req) == TRUE

isFormRequest(req) == HasPrefix(req.contentType, <<ContentTypeFormURLEnc>>)

\* getPathParamVal: panics when the context holds no path parameter table
getPathParamVal(req, pathParamName) ==
    IF req.pathParam = <<>>
    THEN [panic |-> TRUE, val |-> <<>>]
    ELSE [panic |-> FALSE,
          val |-> IF req.pathParam[1].name = pathParamName
                  THEN req.pathParam[1].value
                  ELSE <<>>]

Digits == {"0", "1", "2", "3", "4", "5", "6", "7", "8", "9"}
DigitValue(c) ==
    CASE c = "0" -> 0 [] c = "1" -> 1 [] c = "2" -> 2 [] c = "3" -> 3 [] c = "4" -> 4
      [] c = "5" -> 5 [] c = "6" -> 6 [] c = "7" -> 7 [] c = "8" -> 8 [] c = "9" -> 9

\* the digits of a number without its leading zeros
RECURSIVE StripZeros(_)
StripZeros(ds) ==
    IF Len(ds) > 1 /\ ds[1] = "0" THEN StripZeros(Tail(ds)) ELSE ds

\* a < b for two numbers given by their digits without leading zeros
DigitsLess(a, b) ==
    \/ Len(a) < Len(b)
    \/ /\ Len(a) = Len(b)
       /\ \E i \in 1..Len(a) :
            /\ DigitValue(a[i]) < DigitValue(b[i])
            /\ \A j \in 1..(i - 1) : a[j] = b[j]

\* strconv.IntSize of a 64-bit build
IntSize == 64

\* a range check against 64 bits whatever the bit size: a fault
\* C17_ParsedInRange must detect
MaxValWide(bitSize) == <<"1", "8", "4", "4", "6", "7", "4", "4", "0", "7", "3", "7", "0", "9", "5", "5", "1", "6", "1", "5">>

\* 1<<bitSize - 1, the largest value ParseUint lets through
MaxVal(bitSize) ==
    CASE bitSize = 8 -> <<"2", "5", "5">>
      [] bitSize = 16 -> <<"6", "5", "5", "3", "5">>
      [] bitSize = 32 -> <<"4", "2", "9", "4", "9", "6", "7", "2", "9", "5">>
      [] bitSize = 64 -> <<"1", "8", "4", "4", "6", "7", "4", "4", "0", "7", "3", "7", "0", "9", "5", "5", "1", "6", "1", "5">>

\* 1<<(bitSize-1), the cutoff of ParseInt
Cutoff(bitSize) ==
    CASE bitSize = 8 -> <<"1", "2", "8">>
      [] bitSize = 16 -> <<"3", "2", "7", "6", "8">>
      [] bitSize = 32 -> <<"2", "1", "4", "7", "4", "8", "3", "6", "4", "8">>
      [] bitSize = 64 -> <<"9", "2", "2", "3", "3", "7", "2", "0", "3", "6", "8", "5", "4", "7", "7", "5", "8", "0", "8">>

SyntaxNumError == <<Link("strconv.NumError", <<>>, "", ""), Link("strconv.ErrSyntax", <<>>, "", "")>>
RangeNumError == <<Link("strconv.NumError", <<>>, "", ""), Link("strconv.ErrRange", <<>>, "", "")>>

\* what ParseUint makes of digits: a value up to maxVal
ParseUintOf(digits, maxVal) ==
    IF DigitsLess(maxVal, digits)
    THEN [err |-> RangeNumError, val |-> maxVal]
    ELSE [err |-> NilError, val |-> digits]

\* strconv.ParseUint(str, 10, bitSize): digits only, no sign
ParseUint(str, bitSize) ==
    IF str = <<>> \/ \E i \in 1..Len(str) : str[i] \notin Digits
    THEN [err |-> SyntaxNumError, val |-> ZeroNumeral]
    ELSE ParseUintOf(StripZeros(str), MaxVal(bitSize))

\* what ParseInt makes of the sign and of what ParseUint read behind it
ParseIntOf(neg, un, cutoff) ==
    IF un.err = SyntaxNumError
    THEN [err |-> SyntaxNumError, val |-> ZeroNumeral]
    ELSE IF ~neg /\ ~DigitsLess(un.val, cutoff)
    THEN [err |-> RangeNumError, val |-> ZeroNumeral]
    ELSE IF neg /\ DigitsLess(cutoff, un.val)
    THEN [err |-> RangeNumError, val |-> ZeroNumeral]
    ELSE [err |-> NilError,
          val |-> IF neg /\ un.val # ZeroNumeral THEN <<"-">> \o un.val ELSE un.val]

\* strconv.ParseInt(str, 10, bitSize): a sign, then what ParseUint reads
ParseInt(str, bitSize) ==
    IF str = <<>>
    THEN [err |-> SyntaxNumError, val |-> ZeroNumeral]
    ELSE ParseIntOf(str[1] = "-",
                    ParseUint(IF str[1] \in {"+", "-"} THEN Tail(str) ELSE str, bitSize),
                    Cutoff(bitSize))

\* strconv.Atoi
Atoi(str) == ParseInt(str, IntSize)

\* the bit size setStrToStructField hands to ParseInt / ParseUint
SignedTypes == {"int", "int8", "int16", "int32", "int64"}
UnsignedTypes == {"uint", "uint8", "uint16", "uint32", "uint64"}
BitSize(type) ==
    CASE type \in {"int8", "uint8"} -> 8
      [] type \in {"int16", "uint16"} -> 16
      [] type \in {"int32", "uint32"} -> 32
      [] type \in {"int64", "uint64"} -> 64
      [] type \in {"int", "uint"} -> IntSize

\* the types with a decoder of their own: MyTypeWithUnmarshalText has
\* UnmarshalText, MyTypeWithUnmarshal has UnmarshalJSON, time.Time has both
TextUnmarshalers == {"MyTypeWithUnmarshalText", "time.Time"}
JsonUnmarshalers == {"MyTypeWithUnmarshal", "time.Time"}

\* the texts the parsers behind these decoders accept (a well-formed UUID
\* or timestamp)
WellFormed == { <<"v">> }

\* a JSON string literal and the text between its quotes
Quoted(b) == Len(b) >= 2 /\ b[1] = "\"" /\ b[Len(b)] = "\""
Unquote(b) == SubSeq(b, 2, Len(b) - 1)

\* UnmarshalText of the type on the bytes b: the error and the text stored
UnmarshalText(type, b) ==
    IF b = <<>> /\ type # "time.Time"
    THEN [err |-> errorsNew("empty string"), str |-> <<>>]
    ELSE IF b \notin WellFormed
    THEN [err |-> errorsNew("invalid"), str |-> <<>>]
    ELSE [err |-> NilError, str |-> b]

\* UnmarshalJSON of the type on the bytes b: it wants a JSON string literal
UnmarshalJSON(type, b) ==
    IF ~Quoted(b)
    THEN [err |-> IF type = "time.Time"
                  THEN errorsNew("Time.UnmarshalJSON: input is not a JSON string")
                  ELSE IF b # <<>> /\ \A i \in 1..Len(b) : b[i] \in Digits
                  THEN <<Link("json.UnmarshalTypeError", <<>>, "", "")>>
                  ELSE <<Link("json.SyntaxError", <<>>, "", "")>>,
          str |-> <<>>]
    ELSE IF Unquote(b) = <<>> /\ type # "time.Time"
    THEN [err |-> errorsNew("empty string"), str |-> <<>>]
    ELSE IF Unquote(b) \notin WellFormed
    THEN [err |-> errorsNew("invalid"), str |-> <<>>]
    ELSE [err |-> NilError, str |-> Unquote(b)]

\* encoding/json on the request bodies: whether the text is valid JSON, and
\* the object it denotes (key -> [t: JSON type, int, str]); every body is an
\* object of one key
JsonValid(body) ==
    body \in {BodyJSONString, BodyJSONNumber, BodyJSONWellFormed, BodyJSONQuery,
              BodyJSONQueryString}
JsonObject(body) ==
    CASE body = BodyJSONString ->
            (<<"j">> :> [t |-> "string", int |-> ZeroNumeral, str |-> <<"x">>])
      [] body = BodyJSONNumber ->
            (<<"j">> :> [t |-> "number", int |-> <<"4">>, str |-> <<>>])
      [] body = BodyJSONWellFormed ->
            (<<"j">> :> [t |-> "string", int |-> ZeroNumeral, str |-> <<"v">>])
      [] body = BodyJSONQuery ->
            (<<"q">> :> [t |-> "number", int |-> <<"4">>, str |-> <<>>])
      [] body = BodyJSONQueryString ->
            (<<"q">> :> [t |-> "string", int |-> ZeroNumeral, str |-> <<"x">>])
      [] OTHER -> <<>>

\* the letters of the names, folded as encoding/json folds a key
Fold(name) ==
    [i \in 1..Len(name) |->
        CASE name[i] = "J" -> "j" [] name[i] = "N" -> "n" [] name[i] = "Q" -> "q"
          [] name[i] = "F" -> "f" [] name[i] = "U" -> "u" [] OTHER -> name[i]]

\* the name encoding/json knows a field by: its json tag, else its Go name;
\* a key of the body is matched to it without regard to case
JsonName(f) == IF f.json # <<>> THEN f.json ELSE f.goName
JsonKey(f) == Fold(JsonName(f))

\* the text of a JSON value as it stands in the body
JsonLiteral(v) == IF v.t = "string" THEN <<"\"">> \o v.str \o <<"\"">> ELSE v.int

\* the value of the field f once json has allocated its pointer
jsonAllocated(f, old) == IF f.ptr THEN Value(FALSE, ZeroNumeral, <<>>) ELSE old

\* the UnmarshalTypeError json saves for the field f, and goes on
jsonTypeError(f, old) ==
    [err |-> <<Link("json.UnmarshalTypeError", JsonName(f), "", "")>>,
     abort |-> FALSE, val |-> jsonAllocated(f, old)]

\* what json does with the result u of a decoder of the field's type: an
\* error of the decoder ends the decoding
jsonCustom(u, f, old) ==
    IF u.err = NilError
    THEN [err |-> NilError, abort |-> FALSE, val |-> Value(FALSE, ZeroNumeral, u.str)]
    ELSE [err |-> IF u.err[1].type = "json.UnmarshalTypeError"
                  THEN <<Link("json.UnmarshalTypeError", JsonName(f), "", "")>>
                  ELSE u.err,
          abort |-> TRUE, val |-> jsonAllocated(f, old)]

\* what json does with the result res of a strconv parser on a number
jsonNumber(res, f, old) ==
    IF res.err = NilError
    THEN [err |-> NilError, abort |-> FALSE, val |-> Value(FALSE, res.val, <<>>)]
    ELSE jsonTypeError(f, old)

\* the decoding of the JSON value v into the field f: the error, whether the
\* error ends the decoding, and the value of the field afterwards. A
\* pointer is allocated before the value is looked at
jsonStore(f, old, v) ==
    CASE f.type \in JsonUnmarshalers ->
            jsonCustom(UnmarshalJSON(f.type, JsonLiteral(v)), f, old)
      [] f.type \in TextUnmarshalers /\ v.t = "string" ->
            jsonCustom(UnmarshalText(f.type, v.str), f, old)
      [] f.type = "string" /\ v.t = "string" ->
            [err |-> NilError, abort |-> FALSE, val |-> Value(FALSE, ZeroNumeral, v.str)]
      [] f.type \in SignedTypes /\ v.t = "number" ->
            jsonNumber(ParseInt(v.int, BitSize(f.type)), f, old)
      [] f.type \in UnsignedTypes /\ v.t = "number" ->
            jsonNumber(ParseUint(v.int, BitSize(f.type)), f, old)
      [] OTHER -> jsonTypeError(f, old)

\* what json.Unmarshal returns once every field named in the body has
\* been through jsonStore: the first error, and the values of the fields
jsonResult(stores) ==
    [err |-> IF \A i \in DOMAIN stores : stores[i].err = NilError
             THEN NilError
             ELSE stores[CHOOSE i \in DOMAIN stores :
                            /\ stores[i].err # NilError
                            /\ \A j \in 1..(i - 1) : stores[j].err = NilError].err,
     vals |-> [i \in DOMAIN stores |-> stores[i].val]]

\* the fields of s after the keys of the JSON object obj have been stored
jsonStores(obj, s) ==
    [i \in 1..Len(s.fields) |->
        IF JsonKey(s.fields[i]) \in DOMAIN obj
        THEN jsonStore(s.fields[i], s.vals[i], obj[JsonKey(s.fields[i])])
        ELSE [err |-> NilError, abort |-> FALSE, val |-> s.vals[i]]]

\* json.Unmarshal without the scan that refuses a text that is not JSON: a
\* fault C13_ClassifiedByErrorType must detect
jsonUnmarshalUnchecked(body, s) == jsonResult(jsonStores(JsonObject(body), s))

\* json.Unmarshal(body, s): the error and the values of the fields
\* afterwards
jsonUnmarshal(body, s) ==
    IF ~JsonValid(body)
    THEN [err |-> <<Link("json.SyntaxError", <<>>, "", "")>>, vals |-> s.vals]
    ELSE jsonResult(jsonStores(JsonObject(body), s))

\* url.ParseQuery on the request bodies
ParseQuery(body) ==
    CASE body = "" -> [err |-> FALSE, values |-> NoValues]
      [] body = BodyForm -> [err |-> FALSE, values |-> (<<"f">> :> << <<"1">> >>)]
      [] body = BodyFormEmpty -> [err |-> FALSE, values |-> (<<"f">> :> << <<>> >>)]
      [] body = BodyFormBadEscape -> [err |-> TRUE, values |-> NoValues]
      [] OTHER -> [err |-> FALSE, values |-> (<<body>> :> << <<>> >>)]

\* (*http.Request).ParseForm: for POST, PUT and PATCH it reads the body to
\* its end into PostForm, once; Form is PostForm followed by the query
ParseForm(req) ==
    LET readsBody == req.postForm = <<>> /\ req.method \in {"POST", "PUT", "PATCH"}
        read == IoReaderToString(req.body)
        parsed == ParseQuery(read.str)
        postForm == IF req.postForm # <<>> THEN req.postForm
                    ELSE IF readsBody THEN <<parsed.values>>
                    ELSE <<NoValues>>
        form == IF req.form # <<>> THEN req.form
                ELSE <<AddValues(postForm[1], req.query)>>
    IN  [err |-> readsBody /\ (req.body.isNil \/ parsed.err),
         req |-> [req EXCEPT !.body = IF readsBody THEN read.reader ELSE @,
                             !.postForm = postForm,
                             !.form = form]]

\* what setStrToStructField does with the result of a strconv parser: the
\* number is stored, or the error returned and the field left as it is
setNumber(res, old) ==
    IF res.err # NilError
    THEN [err |-> res.err, panic |-> FALSE, val |-> old]
    ELSE [err |-> NilError, panic |-> FALSE, val |-> Value(FALSE, res.val, <<>>)]

\* what setStrToStructField does with the result of a decoder of the
\* field's type: a pointer field is allocated before the decoder runs
setDecoded(res, f, old) ==
    IF res.err # NilError
    THEN [err |-> res.err, panic |-> FALSE,
          val |-> IF f.ptr THEN Value(FALSE, ZeroNumeral, <<>>) ELSE old]
    ELSE [err |-> NilError, panic |-> FALSE, val |-> Value(FALSE, ZeroNumeral, res.str)]

\* setStrToStructField with the json.Unmarshaler case ahead of the
\* encoding.TextUnmarshaler case: a fault C16_TextDecoderFirst must detect
setStrToStructFieldJsonFirst(f, old, str) ==
    CASE f.type = "string" ->
            [err |-> NilError, panic |-> FALSE, val |-> Value(FALSE, ZeroNumeral, str)]
      [] f.type = "int" -> setNumber(Atoi(str), old)
      [] f.type \in SignedTypes \ {"int"} -> setNumber(ParseInt(str, BitSize(f.type)), old)
      [] f.type \in UnsignedTypes -> setNumber(ParseUint(str, BitSize(f.type)), old)
      [] f.type \in JsonUnmarshalers -> setDecoded(UnmarshalJSON(f.type, str), f, old)
      [] f.type \in TextUnmarshalers -> setDecoded(UnmarshalText(f.type, str), f, old)
      [] OTHER -> [err |-> NilError, panic |-> TRUE, val |-> old]

\* setStrToStructField: the error, whether it panics, and the value of the
\* field afterwards
setStrToStructField(f, old, str) ==
    CASE f.type = "string" ->
            [err |-> NilError, panic |-> FALSE, val |-> Value(FALSE, ZeroNumeral, str)]
      [] f.type = "int" -> setNumber(Atoi(str), old)
      [] f.type \in SignedTypes \ {"int"} -> setNumber(ParseInt(str, BitSize(f.type)), old)
      [] f.type \in UnsignedTypes -> setNumber(ParseUint(str, BitSize(f.type)), old)
      [] f.type \in TextUnmarshalers -> setDecoded(UnmarshalText(f.type, str), f, old)
      [] f.type \in JsonUnmarshalers -> setDecoded(UnmarshalJSON(f.type, str), f, old)
      [] OTHER -> [err |-> NilError, panic |-> TRUE, val |-> old]

\* the field loop handing an empty path parameter on to the conversion: a
\* fault C7_EmptyParamBinds must detect
fieldValueEmptyParamKept(req, f) ==
    IF f.param # <<>>
    THEN <<getPathParamVal(req, f.param).val>>
    ELSE IF f.query # <<>>
    THEN IF f.query \in DOMAIN req.query
         THEN <<req.query[f.query][1]>> ELSE <<>>
    ELSE IF f.form \in DOMAIN req.form[1]
         THEN <<req.form[1][f.form][1]>> ELSE <<>>

\* the field loop taking an empty query or form value for an absent one: a
\* fault C12_EmptyIsConverted must detect
fieldValueEmptySkipped(req, f) ==
    IF f.param # <<>>
    THEN IF getPathParamVal(req, f.param).val # <<>>
         THEN <<getPathParamVal(req, f.param).val>> ELSE <<>>
    ELSE IF f.query # <<>>
    THEN IF f.query \in DOMAIN req.query /\ req.query[f.query][1] # <<>>
         THEN <<req.query[f.query][1]>> ELSE <<>>
    ELSE IF f.form \in DOMAIN req.form[1] /\ req.form[1][f.form][1] # <<>>
         THEN <<req.form[1][f.form][1]>> ELSE <<>>

\* the value the field loop reads for a field tagged param, query or form:
\* <<>> for a nil fieldValue, <<v>> otherwise
fieldValue(req, f) ==
    IF f.param # <<>>
    THEN IF getPathParamVal(req, f.param).val # <<>>
         THEN <<getPathParamVal(req, f.param).val>> ELSE <<>>
    ELSE IF f.query # <<>>
    THEN IF f.query \in DOMAIN req.query
         THEN <<req.query[f.query][1]>> ELSE <<>>
    ELSE IF f.form \in DOMAIN req.form[1]
         THEN <<req.form[1][f.form][1]>> ELSE <<>>

\* the tag name Bind reports a field under
fieldName(f) ==
    IF f.param # <<>> THEN f.param ELSE IF f.query # <<>> THEN f.query ELSE f.form

RECURSIVE BindFields(_, _, _, _)

\* a field loop that goes on to the next field when a conversion fails:
\* a fault C27_StopsAtFirstFailure must detect
BindFieldSetGoesOn(req, fields, vals, i, set) ==
    IF set.panic
    THEN [outcome |-> "panic", err |-> NilError, vals |-> vals]
    ELSE IF set.err # NilError /\ i = Len(fields)
    THEN [outcome |-> "err",
          err |-> wrapByErrBind(ErrRequestFieldFormat(fieldName(fields[i]), set.err)),
          vals |-> [vals EXCEPT ![i] = set.val]]
    ELSE BindFields(req, fields, [vals EXCEPT ![i] = set.val], i + 1)

\* the field loop of Bind once setStrToStructField has returned set for
\* field i
BindFieldSet(req, fields, vals, i, set) ==
    IF set.panic
    THEN [outcome |-> "panic", err |-> NilError, vals |-> vals]
    ELSE IF set.err # NilError
    THEN [outcome |-> "err",
          err |-> wrapByErrBind(ErrRequestFieldFormat(fieldName(fields[i]), set.err)),
          vals |-> [vals EXCEPT ![i] = set.val]]
    ELSE BindFields(req, fields, [vals EXCEPT ![i] = set.val], i + 1)

\* the field loop of Bind once the value v of field i has been looked up
BindFieldValue(req, fields, vals, i, v) ==
    IF v = <<>>
    THEN BindFields(req, fields, vals, i + 1)
    ELSE BindFieldSet(req, fields, vals, i, setStrToStructField(fields[i], vals[i], v[1]))

\* the field loop of Bind at the field f, the i-th
BindField(req, fields, vals, i, f) ==
    IF f.json # <<>> THEN BindFields(req, fields, vals, i + 1)
    ELSE IF \/ f.param # <<>> /\ getPathParamVal(req, f.param).panic
            \/ f.param = <<>> /\ f.query = <<>> /\ f.form # <<>> /\ ~isFormRequest(req)
            \/ f.param = <<>> /\ f.query = <<>> /\ f.form = <<>>
    THEN [outcome |-> "panic", err |-> NilError, vals |-> vals]
    ELSE BindFieldValue(req, fields, vals, i, fieldValue(req, f))

\* the field loop of Bind from field i on
BindFields(req, fields, vals, i) ==
    IF i > Len(fields)
    THEN [outcome |-> "nil", err |-> NilError, vals |-> vals]
    ELSE BindField(req, fields, vals, i, fields[i])

\* Bind once the field loop has ended with loop
BindLoop(req, s, loop) ==
    [outcome |-> loop.outcome, err |-> loop.err, req |-> req,
     s |-> [s EXCEPT !.vals = loop.vals]]

\* Bind from the form parse on: parsed is what ParseForm did
BindForm(req, s, parsed) ==
    IF parsed.err
    THEN [outcome |-> "err",
          err |-> wrapByErrBind(ErrRequestFormParse(
                      <<Link("url.EscapeError", <<>>, "", "")>>)),
          req |-> parsed.req, s |-> s]
    ELSE BindLoop(parsed.req, s, BindFields(parsed.req, s.fields, s.vals, 1))

\* Bind from the classification of the decoding error on: decoded is what
\* json.Unmarshal did, s1 the target afterwards
BindDecoded(req, s1, body, decoded) ==
    IF errorsAs(decoded.err, "json.SyntaxError")
    THEN [outcome |-> "err",
          err |-> wrapByErrBind(ErrRequestJsonSyntaxError(body, decoded.err)),
          req |-> req, s |-> s1]
    ELSE IF errorsAs(decoded.err, "json.UnmarshalTypeError")
    THEN [outcome |-> "err",
          err |-> wrapByErrBind(ErrRequestFieldFormat(
                      errorsTarget(decoded.err, "json.UnmarshalTypeError").field,
                      decoded.err)),
          req |-> req, s |-> s1]
    ELSE IF decoded.err # NilError
    THEN [outcome |-> "err",
          err |-> wrapByErrBind(ErrRequestJsonSomethingInvalid(body, decoded.err)),
          req |-> req, s |-> s1]
    ELSE BindForm(req, s1,
                  IF isFormRequest(req) THEN ParseForm(req)
                  ELSE [err |-> FALSE, req |-> req])

\* Bind with the fields as json.Unmarshal left them
BindStored(req, s, body, decoded) ==
    BindDecoded(req, [s EXCEPT !.vals = decoded.vals], body, decoded)

\* Bind once the body has been read and put back: a body that is not
\* empty is decoded as JSON unless the request is a form
BindBody(req, s, body) ==
    BindStored(req, s, body,
               IF body # "" /\ ~isFormRequest(req)
               THEN jsonUnmarshal(body, s)
               ELSE [err |-> NilError, vals |-> s.vals])

\* Bind(r, s): how it ends, the error it returns, and the request and the
\* target afterwards
Bind(req, s) ==
    IF /\ req.contentType # <<>>
       /\ ~isFormRequest(req)
       /\ ~HasPrefix(req.contentType, <<ContentTypeJSON>>)
    THEN [outcome |-> "err", err |-> ErrUnsupportedContentType, req |-> req, s |-> s]
    ELSE IF s.kind # "struct"
    THEN [outcome |-> "panic", err |-> NilError, req |-> req, s |-> s]
    ELSE BindBody([req EXCEPT !.body = Reader(IoReaderToString(req.body).str)], s,
                  IoReaderToString(req.body).str)

-----------------------------------------------------------------------------
(* Serving one request *)

\* the request variables while no request is in flight
NoRequest ==
    [method |-> "", path |-> <<>>, pathParam |-> <<>>, contentType |-> <<>>,
     body |-> NilReader, sent |-> "", query |-> NoValues, postForm |-> <<>>,
     form |-> <<>>]

\* a request as it arrives: sent records the body the client sent; PostForm
\* and Form are nil
NewRequest(method, path, contentType, body, query) ==
    [method |-> method, path |-> path, pathParam |-> <<>>,
     contentType |-> contentType, body |-> Reader(body), sent |-> body,
     query |-> query, postForm |-> <<>>, form |-> <<>>]

NoTarget == [kind |-> "none", fields |-> <<>>, vals |-> <<>>]
NotBound == [outcome |-> "none", err |-> NilError]

\* the request struct of the handler of a route: an int field tagged with
\* the path parameter of the route
HandlerTarget(route) ==
    IF route.pathParamName # <<>>
    THEN NewTarget(<<Field(<<"N">>, "param", route.pathParamName, "int", FALSE)>>)
    ELSE NewTarget(<<>>)

\* SetResponse: one Header().Set, WriteHeader and Write on the ResponseWriter
SetResponse(w, contentType, statusCode, data) ==
    Append(w, [contentType |-> contentType, statusCode |-> statusCode, data |-> data])

Event(stage, name, did) == [stage |-> stage, name |-> name, did |-> did]

\* constructHandlerBeforeRouting leaving commonMiddleware out: a fault
\* C4_PostOnlyWhenRouted must detect
constructHandlerBeforeRoutingNoMiddleware(middleWareIdx) ==
    [kind |-> "routingHandler", stage |-> "routing", name |-> <<"-", 0>>]

\* constructHandlerBeforeRouting(middleWareIdx): the stage that runs first in
\* the handler it returns
constructHandlerBeforeRouting(middleWareIdx) ==
    IF middleWareIdx <= Len(commonMiddleware) - 1
    THEN [kind |-> "middleware", stage |-> "pre",
          name |-> commonMiddleware[middleWareIdx + 1]]
    ELSE [kind |-> "routingHandler", stage |-> "routing", name |-> <<"-", 0>>]

\* constructHandlerAfterRouting with commonAfterMiddleware ahead of the
\* middleware of the route: a fault C1_StageOrder must detect
constructHandlerAfterRoutingCommonFirst(i, route) ==
    LET commonAfterMiddlewareIdx == i
        middlewareIdx == i - Len(commonAfterMiddleware)
    IN  IF commonAfterMiddlewareIdx <= Len(commonAfterMiddleware) - 1
        THEN [kind |-> "middleware", stage |-> "post",
              name |-> commonAfterMiddleware[commonAfterMiddlewareIdx + 1]]
        ELSE IF middlewareIdx <= Len(route.middleware) - 1
        THEN [kind |-> "middleware", stage |-> "route",
              name |-> route.middleware[middlewareIdx + 1]]
        ELSE [kind |-> "handler", stage |-> "handler", name |-> <<"-", 0>>]

\* constructHandlerAfterRouting(idx, ru): the stage that runs first in the
\* handler it returns
constructHandlerAfterRouting(i, route) ==
    LET middlewareIdx == i
        commonAfterMiddlewareIdx == i - Len(route.middleware)
    IN  IF middlewareIdx <= Len(route.middleware) - 1
        THEN [kind |-> "middleware", stage |-> "route",
              name |-> route.middleware[middlewareIdx + 1]]
        ELSE IF commonAfterMiddlewareIdx <= Len(commonAfterMiddleware) - 1
        THEN [kind |-> "middleware", stage |-> "post",
              name |-> commonAfterMiddleware[commonAfterMiddlewareIdx + 1]]
        ELSE [kind |-> "handler", stage |-> "handler", name |-> <<"-", 0>>]

\* routingHandler looking for a parameterized route only when the last
\* segment is not empty: a fault C6_ParamResolution must detect
routingHandlerNonEmptySegment(req) ==
    LET splitPath == Split(req.path, "/")
        pathParamCandidate == splitPath[Len(splitPath)]
        withParam == IF Len(splitPath) > 2 /\ pathParamCandidate # <<>>
                     THEN getRoute(Append(TrimSuffix(req.path, pathParamCandidate), ":"),
                                   req.method)
                     ELSE <<>>
        exact == getRoute(req.path, req.method)
    IN  IF withParam # <<>>
        THEN IF withParam[1].pathParamName = <<>>
             THEN [outcome |-> "panic", ru |-> withParam, pathParam |-> <<>>]
             ELSE [outcome |-> "route", ru |-> withParam,
                   pathParam |-> <<[name |-> withParam[1].pathParamName,
                                    value |-> pathParamCandidate]>>]
        ELSE IF exact # <<>>
        THEN [outcome |-> "route", ru |-> exact, pathParam |-> <<>>]
        ELSE [outcome |-> "nomethod", ru |-> <<>>, pathParam |-> <<>>]

\* routingHandler trying the exact path before the parameterized one: a
\* fault C8_ParamBeforeLiteral must detect
routingHandlerExactFirst(req) ==
    LET splitPath == Split(req.path, "/")
        pathParamCandidate == splitPath[Len(splitPath)]
        withParam == IF Len(splitPath) > 2
                     THEN getRoute(Append(TrimSuffix(req.path, pathParamCandidate), ":"),
                                   req.method)
                     ELSE <<>>
        exact == getRoute(req.path, req.method)
    IN  IF exact # <<>>
        THEN [outcome |-> "route", ru |-> exact, pathParam |-> <<>>]
        ELSE IF withParam # <<>>
        THEN IF withParam[1].pathParamName = <<>>
             THEN [outcome |-> "panic", ru |-> withParam, pathParam |-> <<>>]
             ELSE [outcome |-> "route", ru |-> withParam,
                   pathParam |-> <<[name |-> withParam[1].pathParamName,
                                    value |-> pathParamCandidate]>>]
        ELSE [outcome |-> "nomethod", ru |-> <<>>, pathParam |-> <<>>]

\* routingHandler: the route it picks, the path parameter table it puts in
\* the request context, and how it ends
routingHandler(req) ==
    LET splitPath == Split(req.path, "/")
        pathParamCandidate == splitPath[Len(splitPath)]
        withParam == IF Len(splitPath) > 2
                     THEN getRoute(Append(TrimSuffix(req.path, pathParamCandidate), ":"),
                                   req.method)
                     ELSE <<>>
        exact == getRoute(req.path, req.method)
    IN  IF withParam # <<>>
        THEN IF withParam[1].pathParamName = <<>>
             THEN [outcome |-> "panic", ru |-> withParam, pathParam |-> <<>>]
             ELSE [outcome |-> "route", ru |-> withParam,
                   pathParam |-> <<[name |-> withParam[1].pathParamName,
                                    value |-> pathParamCandidate]>>]
        ELSE IF exact # <<>>
        THEN [outcome |-> "route", ru |-> exact, pathParam |-> <<>>]
        ELSE [outcome |-> "nomethod", ru |-> <<>>, pathParam |-> <<>>]

\* the server hands a request to recoverHandler, which calls
\* constructHandlerBeforeRouting(0).ServeHTTP
Receive(methods, paths) ==
    \E method \in methods, path \in paths :
        /\ pc = "idle"
        /\ fault = <<>>
        /\ pc' = "pre"
        /\ r' = NewRequest(method, path, <<ContentTypeJSON>>, "", NoValues)
        /\ idx' = 0
        /\ ru' = <<>>
        /\ trace' = <<>>
        /\ writes' = <<>>
        /\ afterPanic' = FALSE
        /\ target' = NoTarget
        /\ bound' = NotBound
        /\ readBack' = <<>>
        /\ UNCHANGED configVars
        /\ UNCHANGED otherVars

\* a chain whose next stage runs although the middleware returned without
\* calling it: a fault C3_ShortCircuit must detect
RunMiddlewareNextRegardless(h, did) ==
    /\ trace' = Append(trace, Event(h.stage, h.name, did))
    /\ idx' = IF did \in {"next", "next_then_panic", "stop"} THEN idx + 1 ELSE idx
    /\ pc' = CASE did \in {"next", "next_then_panic", "stop"} -> pc
               [] did = "panic" -> "panic"
    /\ afterPanic' = (afterPanic \/ did = "next_then_panic")
    /\ UNCHANGED <<r, ru, writes>>
    /\ UNCHANGED bindVars
    /\ UNCHANGED configVars
    /\ UNCHANGED otherVars

\* the body of a middleware: it calls next.ServeHTTP, returns without
\* calling it, or panics, before or after the call
RunMiddleware(h, did) ==
    /\ trace' = Append(trace, Event(h.stage, h.name, did))
    /\ idx' = IF did \in {"next", "next_then_panic"} THEN idx + 1 ELSE idx
    /\ pc' = CASE did \in {"next", "next_then_panic"} -> pc
               [] did = "stop" -> "return"
               [] did = "panic" -> "panic"
    /\ afterPanic' = (afterPanic \/ did = "next_then_panic")
    /\ UNCHANGED <<r, ru, writes>>
    /\ UNCHANGED bindVars
    /\ UNCHANGED configVars
    /\ UNCHANGED otherVars

\* a middleware of commonMiddleware runs
PreRoutingMiddleware(behaviours) ==
    /\ pc = "pre"
    /\ constructHandlerBeforeRouting(idx).kind = "middleware"
    /\ \E did \in behaviours : RunMiddleware(constructHandlerBeforeRouting(idx), did)

\* routingHandler runs
Routing ==
    /\ pc = "pre"
    /\ constructHandlerBeforeRouting(idx).kind = "routingHandler"
    /\ LET res == routingHandler(r) IN
        /\ trace' = Append(trace, Event("routing", <<"-", 0>>, res.outcome))
        /\ ru' = res.ru
        /\ r' = [r EXCEPT !.pathParam = res.pathParam]
        /\ idx' = 0
        /\ pc' = CASE res.outcome = "route" -> "after"
                   [] res.outcome = "nomethod" -> "return"
                   [] res.outcome = "panic" -> "panic"
        /\ writes' = IF res.outcome = "nomethod"
                     THEN SetResponse(writes, noMethodContentType, StatusNotFound,
                                      noMethodResponse)
                     ELSE writes
    /\ UNCHANGED afterPanic
    /\ UNCHANGED bindVars
    /\ UNCHANGED configVars
    /\ UNCHANGED otherVars

\* a middleware of the route or of commonAfterMiddleware runs
AfterRoutingMiddleware(behaviours) ==
    /\ pc = "after"
    /\ constructHandlerAfterRouting(idx, ru[1]).kind = "middleware"
    /\ \E did \in behaviours : RunMiddleware(constructHandlerAfterRouting(idx, ru[1]), did)

\* what the binding handler does once Bind has ended with res
BindingHandlerDone(res) ==
    /\ r' = res.req
    /\ target' = res.s
    /\ bound' = [outcome |-> res.outcome, err |-> res.err]
    /\ writes' = CASE res.outcome = "nil" ->
                        SetResponse(writes, ContentTypeJSON, StatusOK, "ok")
                   [] res.outcome = "err" ->
                        SetResponse(writes, ContentTypeJSON, StatusBadRequest,
                                    res.err[Len(res.err)].type)
                   [] OTHER -> writes
    /\ pc' = IF res.outcome = "panic" THEN "panic" ELSE "return"

\* a handler that binds the request to its request struct, answers a
\* failed Bind with 400 and goes on to answer 200
BindingHandler == BindingHandlerDone(Bind(r, HandlerTarget(ru[1])))

\* the handler of the route runs
RunHandler(behaviours) ==
    /\ pc = "after"
    /\ constructHandlerAfterRouting(idx, ru[1]).kind = "handler"
    /\ \E did \in behaviours :
        /\ trace' = Append(trace, Event("handler", <<"-", 0>>, did))
        /\ IF did = "bind"
           THEN BindingHandler
           ELSE /\ writes' = IF did \in {"respond", "respond_then_panic"}
                             THEN SetResponse(writes, ContentTypeJSON, StatusOK, "ok")
                             ELSE writes
                /\ pc' = IF did = "respond" THEN "return" ELSE "panic"
                /\ UNCHANGED <<r, target, bound>>
    /\ UNCHANGED <<idx, ru, afterPanic, readBack>>
    /\ UNCHANGED configVars
    /\ UNCHANGED otherVars

\* a chain that is run again from its start when it returns: a fault
\* C20_Lifecycle must detect
ReturnRetry ==
    /\ pc = "return"
    /\ pc' = "pre"
    /\ idx' = 0
    /\ UNCHANGED <<r, ru, trace, writes, afterPanic>>
    /\ UNCHANGED bindVars
    /\ UNCHANGED configVars
    /\ UNCHANGED otherVars

\* the calls return through the middleware that called next
Return ==
    /\ pc = "return"
    /\ pc' = IF afterPanic THEN "panic" ELSE "done"
    /\ UNCHANGED <<r, idx, ru, trace, writes, afterPanic>>
    /\ UNCHANGED bindVars
    /\ UNCHANGED configVars
    /\ UNCHANGED otherVars

\* the deferred function of recoverHandler
recoverHandler ==
    /\ pc = "panic"
    /\ writes' = SetResponse(writes, internalServerErrorContentType,
                             StatusInternalServerError, internalServerErrorResponse)
    /\ trace' = Append(trace, Event("recover", <<"-", 0>>, "recovered"))
    /\ pc' = "done"
    /\ UNCHANGED <<r, idx, ru, afterPanic>>
    /\ UNCHANGED bindVars
    /\ UNCHANGED configVars
    /\ UNCHANGED otherVars

\* the response is sent and the goroutine ends
Finish ==
    /\ pc = "done"
    /\ pc' = "idle"
    /\ r' = NoRequest
    /\ idx' = 0
    /\ ru' = <<>>
    /\ trace' = <<>>
    /\ writes' = <<>>
    /\ afterPanic' = FALSE
    /\ target' = NoTarget
    /\ bound' = NotBound
    /\ readBack' = <<>>
    /\ UNCHANGED configVars
    /\ UNCHANGED otherVars

-----------------------------------------------------------------------------
(* The other goroutines *)

\* the goroutines that call Shutdown
Callers == {1, 2}

\* a channel: nil until made, then open with the values it buffers, then closed
NilChan == [made |-> FALSE, closed |-> FALSE, buf |-> <<>>]

\* the second request while it is not in flight
NoPeer ==
    [pc |-> "idle", r |-> NoRequest, idx |-> 0, ru |-> <<>>, trace |-> <<>>,
     writes |-> <<>>]

\* the server hands the second request to recoverHandler in a goroutine of
\* its own
PeerReceive(methods, paths) ==
    \E method \in methods, path \in paths :
        /\ peer.pc = "idle"
        /\ fault = <<>>
        /\ peer' = [NoPeer EXCEPT
                        !.pc = "pre",
                        !.r = NewRequest(method, path, <<ContentTypeJSON>>, "", NoValues)]
        /\ UNCHANGED <<configVars, requestVars, rebound, shutdown, server, caller>>

\* a middleware of the second request calls next.ServeHTTP
PeerRunMiddleware(h) ==
    /\ h.kind = "middleware"
    /\ peer' = [peer EXCEPT !.trace = Append(@, Event(h.stage, h.name, "next")),
                            !.idx = @ + 1]
    /\ UNCHANGED <<configVars, requestVars, rebound, shutdown, server, caller>>

\* a middleware of commonMiddleware runs for the second request
PeerPreRoutingMiddleware ==
    /\ peer.pc = "pre"
    /\ PeerRunMiddleware(constructHandlerBeforeRouting(peer.idx))

\* a routingHandler that keeps the path parameter table where every request
\* finds it, not in the context of its own request: a fault
\* C21_ConcurrentAsAlone must detect
PeerRoutingSharedTable ==
    /\ peer.pc = "pre"
    /\ constructHandlerBeforeRouting(peer.idx).kind = "routingHandler"
    /\ LET res == routingHandler(peer.r) IN
        /\ peer' = [peer EXCEPT
                !.trace = Append(@, Event("routing", <<"-", 0>>, res.outcome)),
                !.ru = res.ru,
                !.r = [@ EXCEPT !.pathParam = res.pathParam],
                !.idx = 0,
                !.pc = CASE res.outcome = "route" -> "after"
                         [] res.outcome = "nomethod" -> "return"
                         [] res.outcome = "panic" -> "panic",
                !.writes = IF res.outcome = "nomethod"
                           THEN SetResponse(@, noMethodContentType, StatusNotFound,
                                            noMethodResponse)
                           ELSE @]
        /\ r' = IF pc = "idle" THEN r ELSE [r EXCEPT !.pathParam = res.pathParam]
    /\ UNCHANGED <<pc, idx, ru, trace, writes, afterPanic>>
    /\ UNCHANGED bindVars
    /\ UNCHANGED <<configVars, rebound, shutdown, server, caller>>

\* routingHandler runs for the second request: ru and the context holding
\* the path parameter table are its own
PeerRouting ==
    /\ peer.pc = "pre"
    /\ constructHandlerBeforeRouting(peer.idx).kind = "routingHandler"
    /\ LET res == routingHandler(peer.r) IN
        peer' = [peer EXCEPT
                !.trace = Append(@, Event("routing", <<"-", 0>>, res.outcome)),
                !.ru = res.ru,
                !.r = [@ EXCEPT !.pathParam = res.pathParam],
                !.idx = 0,
                !.pc = CASE res.outcome = "route" -> "after"
                         [] res.outcome = "nomethod" -> "return"
                         [] res.outcome = "panic" -> "panic",
                !.writes = IF res.outcome = "nomethod"
                           THEN SetResponse(@, noMethodContentType, StatusNotFound,
                                            noMethodResponse)
                           ELSE @]
    /\ UNCHANGED <<configVars, requestVars, rebound, shutdown, server, caller>>

\* a middleware of the route or of commonAfterMiddleware runs for the second
\* request
PeerAfterRoutingMiddleware ==
    /\ peer.pc = "after"
    /\ PeerRunMiddleware(constructHandlerAfterRouting(peer.idx, peer.ru[1]))

\* the handler of the route of the second request runs
PeerRunHandler(behaviours) ==
    /\ peer.pc = "after"
    /\ constructHandlerAfterRouting(peer.idx, peer.ru[1]).kind = "handler"
    /\ \E did \in behaviours :
        peer' = [peer EXCEPT
                !.trace = Append(@, Event("handler", <<"-", 0>>, did)),
                !.writes = IF did = "respond"
                           THEN SetResponse(@, ContentTypeJSON, StatusOK, "ok")
                           ELSE @,
                !.pc = IF did = "respond" THEN "return" ELSE "panic"]
    /\ UNCHANGED <<configVars, requestVars, rebound, shutdown, server, caller>>

\* the calls of the second request return
PeerReturn ==
    /\ peer.pc = "return"
    /\ peer' = [peer EXCEPT !.pc = "done"]
    /\ UNCHANGED <<configVars, requestVars, rebound, shutdown, server, caller>>

\* the deferred function of recoverHandler in the goroutine of the second
\* request
PeerRecoverHandler ==
    /\ peer.pc = "panic"
    /\ peer' = [peer EXCEPT
            !.writes = SetResponse(@, internalServerErrorContentType,
                                   StatusInternalServerError,
                                   internalServerErrorResponse),
            !.trace = Append(@, Event("recover", <<"-", 0>>, "recovered")),
            !.pc = "done"]
    /\ UNCHANGED <<configVars, requestVars, rebound, shutdown, server, caller>>

\* the response of the second request is sent and its goroutine ends
PeerFinish ==
    /\ peer.pc = "done"
    /\ peer' = NoPeer
    /\ UNCHANGED <<configVars, requestVars, rebound, shutdown, server, caller>>

\* util.go StartServer up to the select: the listener goroutine is started,
\* shutdown = make(chan any, 1), close(shutdown) is deferred and the signals
\* are routed to quit
StartServer ==
    /\ server = "off"
    /\ shutdown' = [made |-> TRUE, closed |-> FALSE, buf |-> <<>>]
    /\ server' = "made"
    /\ UNCHANGED <<configVars, requestVars, rebound, peer, caller>>

\* the select of StartServer: a value already buffered in shutdown is taken,
\* otherwise the goroutine parks on both channels
Select ==
    /\ server = "made"
    /\ IF shutdown.buf # <<>>
       THEN /\ shutdown' = [shutdown EXCEPT !.buf = Tail(@)]
            /\ server' = "received"
       ELSE /\ server' = "waiting"
            /\ UNCHANGED shutdown
    /\ UNCHANGED <<configVars, requestVars, rebound, peer, caller>>

\* SIGTERM or os.Interrupt arrives once signal.Notify is in force: case <-quit
Signal ==
    /\ server \in {"made", "waiting"}
    /\ server' = "quit"
    /\ UNCHANGED <<configVars, requestVars, rebound, peer, shutdown, caller>>

\* srv.Shutdown(ctx): nil, or an error (the timeout passed) and StartServer
\* panics
SrvShutdown(outcomes) ==
    /\ server \in {"received", "quit"}
    /\ \E o \in outcomes : server' = (IF o = "ok" THEN "stopped" ELSE "failed")
    /\ UNCHANGED <<configVars, requestVars, rebound, peer, shutdown, caller>>

\* the deferred close(shutdown), run when StartServer returns and when it
\* panics; the panic then ends the process
Close ==
    /\ server \in {"stopped", "failed"}
    /\ shutdown' = [shutdown EXCEPT !.closed = TRUE]
    /\ server' = (IF server = "stopped" THEN "returned" ELSE "crashed")
    /\ UNCHANGED <<configVars, requestVars, rebound, peer, caller>>

\* a goroutine calls Shutdown()
CallShutdown(c) ==
    /\ caller[c] = "off"
    /\ server # "crashed"
    /\ caller' = [caller EXCEPT ![c] = "send"]
    /\ UNCHANGED <<configVars, requestVars, rebound, peer, shutdown, server>>

\* shutdown <- struct{}{}: on the nil channel the goroutine blocks for ever,
\* on the closed one it panics, a StartServer parked in its select is handed
\* the value, an empty buffer takes it, a full one makes the sender wait
ShutdownSend(c) ==
    /\ caller[c] = "send"
    /\ server # "crashed"
    /\ IF ~shutdown.made
       THEN /\ caller' = [caller EXCEPT ![c] = "nil"]
            /\ UNCHANGED <<shutdown, server>>
       ELSE IF shutdown.closed
       THEN /\ caller' = [caller EXCEPT ![c] = "panic"]
            /\ UNCHANGED <<shutdown, server>>
       ELSE IF server = "waiting"
       THEN /\ caller' = [caller EXCEPT ![c] = "receive"]
            /\ server' = "received"
            /\ UNCHANGED shutdown
       ELSE /\ shutdown.buf = <<>>
            /\ shutdown' = [shutdown EXCEPT !.buf = <<"struct{}{}">>]
            /\ caller' = [caller EXCEPT ![c] = "receive"]
            /\ UNCHANGED server
    /\ UNCHANGED <<configVars, requestVars, rebound, peer>>

\* <-shutdown in Shutdown: a buffered value is taken, whoever sent it; the
\* closed channel gives the zero value; otherwise the goroutine waits
ShutdownReceive(c) ==
    /\ caller[c] = "receive"
    /\ server # "crashed"
    /\ \/ /\ shutdown.buf # <<>>
          /\ shutdown' = [shutdown EXCEPT !.buf = Tail(@)]
       \/ /\ shutdown.buf = <<>>
          /\ shutdown.closed
          /\ UNCHANGED shutdown
    /\ caller' = [caller EXCEPT ![c] = "returned"]
    /\ UNCHANGED <<configVars, requestVars, rebound, peer, server>>

-----------------------------------------------------------------------------
(* Specifications *)

\* no second call of Bind, no second request, StartServer not called and
\* nobody calling Shutdown
InitOthers ==
    /\ rebound = <<>>
    /\ peer = NoPeer
    /\ shutdown = NilChan
    /\ server = "off"
    /\ caller = [c \in Callers |-> "off"]

Init ==
    /\ router = <<>>
    /\ commonMiddleware = <<>>
    /\ commonAfterMiddleware = <<>>
    /\ noMethodResponse = DefaultNoMethodResponse
    /\ noMethodContentType = ContentTypeJSON
    /\ internalServerErrorResponse = DefaultInternalServerErrorResponse
    /\ internalServerErrorContentType = ContentTypeJSON
    /\ registered = {}
    /\ fault = <<>>
    /\ pc = "idle"
    /\ r = NoRequest
    /\ idx = 0
    /\ ru = <<>>
    /\ trace = <<>>
    /\ writes = <<>>
    /\ afterPanic = FALSE
    /\ target = NoTarget
    /\ bound = NotBound
    /\ readBack = <<>>
    /\ InitOthers

\* the paths and requests of the middleware chain specification
ChainRegPaths == { <<"/", "a">>, <<"/", "a", "/", ":", "n">> }
ChainReqPaths == { <<"/", "a">>, <<"/", "a", "/", "1">>, <<"/", "b">> }

\* the middleware chain: every tier holds up to MaxMw middleware
Next ==
    \/ Get(ChainRegPaths, MaxMw)
    \/ RecoverRegistration
    \/ SetCommonMiddleware(MaxMw)
    \/ SetCommonAfterMiddleware(MaxMw)
    \/ SetInternalServerErrorResponse
    \/ Receive({MethodGet}, ChainReqPaths)
    \/ PreRoutingMiddleware(MiddlewareBehaviours)
    \/ Routing
    \/ AfterRoutingMiddleware(MiddlewareBehaviours)
    \/ RunHandler(HandlerBehaviours)
    \/ Return
    \/ recoverHandler
    \/ Finish

Spec == Init /\ [][Next]_vars

\* a step of the goroutine that serves the request in flight
Serve ==
    \/ PreRoutingMiddleware(MiddlewareBehaviours)
    \/ Routing
    \/ AfterRoutingMiddleware(MiddlewareBehaviours)
    \/ RunHandler(HandlerBehaviours)
    \/ Return
    \/ recoverHandler

\* the middleware chain, with the goroutine of a request scheduled until it
\* ends: every middleware and handler returns or panics
SpecLive == Spec /\ WF_vars(Serve)

\* the route table: both methods, every path, one pre-routing middleware
NextRoute ==
    \/ Get(RegPaths, 0)
    \/ Post(RegPaths, 0)
    \/ RecoverRegistration
    \/ SetCommonMiddleware(MaxPreMw)
    \/ SetNoMethodResponse
    \/ SetInternalServerErrorResponse
    \/ Receive(Methods, ReqPaths)
    \/ PreRoutingMiddleware(MiddlewareBehaviours)
    \/ Routing
    \/ RunHandler(BindingHandlerBehaviours)
    \/ Return
    \/ recoverHandler
    \/ Finish

SpecRoute == Init /\ [][NextRoute]_vars

\* the paths and requests of the setup specification: a marker without a
\* name, and two names under one template
SetupRegPaths ==
    { <<"/", "a">>,
      <<"/", "a", "/", ":", "n">>,
      <<"/", "a", "/", ":", "m">>,
      <<"/", "a", "/", ":">> }
SetupReqPaths == { <<"/", "a">>, <<"/", "a", "/", "1">>, <<"/", "b">> }

\* setup through every registration call, then requests whose middleware
\* call next and whose handlers respond
NextSetup ==
    \/ Get(SetupRegPaths, MaxPreMw)
    \/ Post(SetupRegPaths, MaxPreMw)
    \/ RecoverRegistration
    \/ SetCommonMiddleware(MaxPreMw)
    \/ SetCommonAfterMiddleware(MaxPreMw)
    \/ Receive(Methods, SetupReqPaths)
    \/ PreRoutingMiddleware({"next"})
    \/ Routing
    \/ AfterRoutingMiddleware({"next"})
    \/ RunHandler({"respond"})
    \/ Return
    \/ recoverHandler
    \/ Finish

SpecSetup == Init /\ [][NextSetup]_vars

\* the requests handed to Bind
BindMethods == {MethodGet, MethodPost}
BindPathParams ==
    { <<>>,
      <<[name |-> <<"n">>, value |-> <<"1">>]>>,
      <<[name |-> <<"n">>, value |-> <<"x">>]>>,
      <<[name |-> <<"m">>, value |-> <<"1">>]>> }
BindQueries ==
    { NoValues, <<"q">> :> << <<"2">> >>, <<"q">> :> << <<"y">> >>, <<"q">> :> << <<>> >>,
      <<"f">> :> << <<"2">> >> }
BindRequests ==
    { [NewRequest(method, <<"/", "a">>, contentType, body, query)
            EXCEPT !.pathParam = pathParam] :
        method \in BindMethods, contentType \in ContentTypes, body \in Bodies,
        query \in BindQueries, pathParam \in BindPathParams }

\* the values handed to Bind as s
BindTargets ==
    { NewTarget(<<Field(<<"J">>, "json", <<"j">>, "string", FALSE),
                  Field(<<"N">>, "param", <<"n">>, "int", FALSE),
                  Field(<<"Q">>, "query", <<"q">>, "int", TRUE)>>),
      NewTarget(<<Field(<<"J">>, "json", <<"j">>, "int", FALSE),
                  Field(<<"F">>, "form", <<"f">>, "string", FALSE)>>),
      NewTarget(<<Field(<<"N">>, "param", <<"n">>, "int", FALSE),
                  Field(<<"J">>, "json", <<"j">>, "string", FALSE),
                  Field(<<"Q">>, "query", <<"q">>, "int", FALSE)>>),
      NewTarget(<<Field(<<"F">>, "form", <<"f">>, "int", TRUE)>>),
      NewTarget(<<Field(<<"U">>, "", <<>>, "int", FALSE)>>),
      NewTarget(<<Field(<<"Q">>, "query", <<"q">>, "int", FALSE),
                  Field(<<"U">>, "", <<>>, "int", FALSE)>>),
      NewTarget(<<Field(<<"Q">>, "query", <<"q">>, "string", TRUE)>>),
      NewTarget(<<Field(<<"J">>, "json", <<"j">>, "MyTypeWithUnmarshal", FALSE)>>),
      NewTarget(<<Field(<<"J">>, "json", <<"j">>, "MyTypeWithUnmarshalText", TRUE)>>),
      NewTarget(<<Field(<<"J">>, "json", <<"j">>, "time.Time", FALSE)>>),
      [kind |-> "int", fields |-> <<>>, vals |-> <<>>] }

\* the texts handed to the conversion of one field
Tokens ==
    { <<>>,
      <<"0">>,
      <<"-", "0">>,
      <<"+", "0">>,
      <<"+", "5">>,
      <<"-", "1">>,
      <<"7">>,
      <<"0", "0", "7">>,
      <<"-", "0", "0", "7">>,
      <<"1", "2", "7">>,
      <<"1", "2", "8">>,
      <<"-", "1", "2", "8">>,
      <<"-", "1", "2", "9">>,
      <<"2", "5", "5">>,
      <<"2", "5", "6">>,
      <<"3", "2", "7", "6", "7">>,
      <<"3", "2", "7", "6", "8">>,
      <<"-", "3", "2", "7", "6", "8">>,
      <<"-", "3", "2", "7", "6", "9">>,
      <<"6", "5", "5", "3", "5">>,
      <<"6", "5", "5", "3", "6">>,
      <<"2", "1", "4", "7", "4", "8", "3", "6", "4", "7">>,
      <<"2", "1", "4", "7", "4", "8", "3", "6", "4", "8">>,
      <<"-", "2", "1", "4", "7", "4", "8", "3", "6", "4", "8">>,
      <<"-", "2", "1", "4", "7", "4", "8", "3", "6", "4", "9">>,
      <<"4", "2", "9", "4", "9", "6", "7", "2", "9", "5">>,
      <<"4", "2", "9", "4", "9", "6", "7", "2", "9", "6">>,
      <<"9", "2", "2", "3", "3", "7", "2", "0", "3", "6", "8", "5", "4", "7", "7", "5", "8", "0", "7">>,
      <<"9", "2", "2", "3", "3", "7", "2", "0", "3", "6", "8", "5", "4", "7", "7", "5", "8", "0", "8">>,
      <<"-", "9", "2", "2", "3", "3", "7", "2", "0", "3", "6", "8", "5", "4", "7", "7", "5", "8", "0", "8">>,
      <<"-", "9", "2", "2", "3", "3", "7", "2", "0", "3", "6", "8", "5", "4", "7", "7", "5", "8", "0", "9">>,
      <<"1", "8", "4", "4", "6", "7", "4", "4", "0", "7", "3", "7", "0", "9", "5", "5", "1", "6", "1", "5">>,
      <<"1", "8", "4", "4", "6", "7", "4", "4", "0", "7", "3", "7", "0", "9", "5", "5", "1", "6", "1", "6">>,
      <<"+">>,
      <<"-">>,
      <<"x">>,
      <<"1", "x">>,
      <<"1", "_", "0">>,
      <<"1", ".", "0">>,
      <<" ", "1">>,
      <<"0", "x", "1", "f">>,
      <<"-", "-", "1">>,
      <<"v">>,
      <<"\"", "v", "\"">> }

\* the types of the fields converted: the integer types, string, the types
\* with decoders, and one the conversion does not know
FieldTypes ==
    SignedTypes \cup UnsignedTypes
        \cup {"string", "MyTypeWithUnmarshalText", "MyTypeWithUnmarshal", "time.Time",
              "complex128"}

\* a request whose query holds one text for q, and a struct of one field
\* tagged query:"q"
CoercionInputs ==
    { << NewRequest(MethodGet, <<"/", "a">>, <<>>, "", <<"q">> :> <<token>>),
         NewTarget(<<Field(<<"Q">>, "query", <<"q">>, type, ptr)>>) >> :
        token \in Tokens, type \in FieldTypes, ptr \in BOOLEAN }

BindInputs == (BindRequests \X BindTargets) \cup CoercionInputs

\* a handler is about to call Bind on a request
InitBind ==
    /\ router = <<>>
    /\ commonMiddleware = <<>>
    /\ commonAfterMiddleware = <<>>
    /\ noMethodResponse = DefaultNoMethodResponse
    /\ noMethodContentType = ContentTypeJSON
    /\ internalServerErrorResponse = DefaultInternalServerErrorResponse
    /\ internalServerErrorContentType = ContentTypeJSON
    /\ registered = {}
    /\ fault = <<>>
    /\ pc = "bind"
    /\ \E in \in BindInputs : r = in[1] /\ target = in[2]
    /\ idx = 0
    /\ ru = <<>>
    /\ trace = <<>>
    /\ writes = <<>>
    /\ afterPanic = FALSE
    /\ bound = NotBound
    /\ readBack = <<>>
    /\ InitOthers

\* the handler has called Bind(r, &target) and Bind has ended with res
BindCallDone(res) ==
    /\ r' = res.req
    /\ target' = res.s
    /\ bound' = [outcome |-> res.outcome, err |-> res.err]
    /\ pc' = IF res.outcome = "panic" THEN "panic" ELSE "bound"

\* the handler calls Bind(r, &target)
BindCall ==
    /\ pc = "bind"
    /\ BindCallDone(Bind(r, target))
    /\ UNCHANGED <<idx, ru, trace, writes, afterPanic, readBack>>
    /\ UNCHANGED configVars
    /\ UNCHANGED otherVars

\* after Bind returned, the handler reads r.Body to its end
ReadBody ==
    /\ pc = "bound"
    /\ readBack' = <<IoReaderToString(r.body).str>>
    /\ r' = [r EXCEPT !.body = IoReaderToString(r.body).reader]
    /\ pc' = "read"
    /\ UNCHANGED <<idx, ru, trace, writes, afterPanic, target, bound>>
    /\ UNCHANGED configVars
    /\ UNCHANGED otherVars

NextBind ==
    \/ BindCall
    \/ ReadBody

SpecBind == InitBind /\ [][NextBind]_vars

\* the characters of the texts handed to the coercion of src/server/bind.go
CoerceChars == {"v", "n", "1", "\"", "\\"}

\* the longest text handed to it
MaxToken == 3

\* the texts handed to it: every text of up to MaxToken characters
RECURSIVE CoerceTokens(_)
CoerceTokens(n) ==
    IF n = 0 THEN { <<>> }
    ELSE CoerceTokens(n - 1)
            \cup { Append(t, c) : t \in { u \in CoerceTokens(n - 1) : Len(u) = n - 1 },
                                  c \in CoerceChars }

\* the scan of a JSON string literal from its character i on, acc the text
\* decoded so far: the literal has to end with the document
RECURSIVE jsonScanString(_, _, _)
jsonScanString(b, i, acc) ==
    IF i > Len(b) THEN [ok |-> FALSE, str |-> <<>>]
    ELSE IF b[i] = "\"" THEN [ok |-> i = Len(b), str |-> acc]
    ELSE IF b[i] # "\\" THEN jsonScanString(b, i + 1, Append(acc, b[i]))
    ELSE IF i + 1 > Len(b) THEN [ok |-> FALSE, str |-> <<>>]
    ELSE IF b[i + 1] \in {"\"", "\\"} THEN jsonScanString(b, i + 2, Append(acc, b[i + 1]))
    ELSE IF b[i + 1] = "n" THEN jsonScanString(b, i + 2, Append(acc, "LF"))
    ELSE [ok |-> FALSE, str |-> <<>>]

\* b is a JSON document that is one string literal
jsonStringLiteral(b) ==
    IF b # <<>> /\ b[1] = "\""
    THEN jsonScanString(b, 2, <<>>)
    ELSE [ok |-> FALSE, str |-> <<>>]

\* b is a JSON document that is one integer literal
jsonIntegerLiteral(b) ==
    /\ b # <<>>
    /\ \A i \in 1..Len(b) : b[i] \in Digits
    /\ Len(b) > 1 => b[1] # "0"

\* json.Unmarshal(b, &s) for a string s
jsonUnmarshalString(b) ==
    IF jsonStringLiteral(b).ok
    THEN [err |-> NilError, str |-> jsonStringLiteral(b).str]
    ELSE IF jsonIntegerLiteral(b)
    THEN [err |-> <<Link("json.UnmarshalTypeError", <<>>, "", "")>>, str |-> <<>>]
    ELSE [err |-> <<Link("json.SyntaxError", <<>>, "", "")>>, str |-> <<>>]

\* json.Unmarshal(b, &i) for an int i
jsonUnmarshalInt(b) ==
    IF jsonIntegerLiteral(b)
    THEN ParseInt(b, IntSize)
    ELSE IF jsonStringLiteral(b).ok
    THEN [err |-> <<Link("json.UnmarshalTypeError", <<>>, "", "")>>, val |-> ZeroNumeral]
    ELSE [err |-> <<Link("json.SyntaxError", <<>>, "", "")>>, val |-> ZeroNumeral]

\* the quoting step of the string cases: quotes are added unless the text
\* begins and ends with one
quote(str) ==
    IF ~HasPrefix(str, <<"\"">>) \/ ~HasSuffix(str, <<"\"">>)
    THEN <<"\"">> \o str \o <<"\"">>
    ELSE str

\* what the string cases do with the result res of json.Unmarshal: a
\* string field takes the text decoded, a *string field the text as it came
bindgoStringSet(res, f, old, str) ==
    IF res.err # NilError
    THEN [err |-> res.err, panic |-> FALSE, val |-> old]
    ELSE [err |-> NilError, panic |-> FALSE,
          val |-> Value(FALSE, ZeroNumeral, IF f.ptr THEN str ELSE res.str)]

\* setStrToStructField of src/server/bind.go, for the field types string,
\* *string, int and *int and a type it does not know: every text goes
\* through json.Unmarshal
bindgoSetStrToStructField(f, old, str) ==
    CASE str = <<>> -> [err |-> NilError, panic |-> FALSE, val |-> old]
      [] str # <<>> /\ f.type = "string" ->
            bindgoStringSet(jsonUnmarshalString(quote(str)), f, old, str)
      [] str # <<>> /\ f.type = "int" -> setNumber(jsonUnmarshalInt(str), old)
      [] OTHER -> [err |-> NilError, panic |-> TRUE, val |-> old]

\* the field types handed to it
CoerceTypes == {"string", "int", "complex128"}

\* setStrToStructField of src/server/bind.go is about to be called on one
\* field and one text
InitCoerce ==
    /\ router = <<>>
    /\ commonMiddleware = <<>>
    /\ commonAfterMiddleware = <<>>
    /\ noMethodResponse = DefaultNoMethodResponse
    /\ noMethodContentType = ContentTypeJSON
    /\ internalServerErrorResponse = DefaultInternalServerErrorResponse
    /\ internalServerErrorContentType = ContentTypeJSON
    /\ registered = {}
    /\ fault = <<>>
    /\ pc = "coerce"
    /\ \E token \in CoerceTokens(MaxToken), type \in CoerceTypes, ptr \in BOOLEAN :
        /\ r = NewRequest(MethodGet, <<"/", "a">>, <<>>, "", <<"q">> :> <<token>>)
        /\ target = NewTarget(<<Field(<<"Q">>, "query", <<"q">>, type, ptr)>>)
    /\ idx = 0
    /\ ru = <<>>
    /\ trace = <<>>
    /\ writes = <<>>
    /\ afterPanic = FALSE
    /\ bound = NotBound
    /\ readBack = <<>>
    /\ InitOthers

\* the call has ended with set
CoerceDone(set) ==
    /\ target' = [target EXCEPT !.vals[1] = set.val]
    /\ bound' = [outcome |-> IF set.panic THEN "panic"
                             ELSE IF set.err # NilError THEN "err" ELSE "nil",
                 err |-> set.err]
    /\ pc' = IF set.panic THEN "panic" ELSE "coerced"

\* the call setStrToStructField(rv, str)
Coerce ==
    /\ pc = "coerce"
    /\ CoerceDone(bindgoSetStrToStructField(target.fields[1], target.vals[1],
                                            r.query[<<"q">>][1]))
    /\ UNCHANGED <<r, idx, ru, trace, writes, afterPanic, readBack>>
    /\ UNCHANGED otherVars
    /\ UNCHANGED configVars

SpecCoerce == InitCoerce /\ [][Coerce]_vars

\* the handler has called Bind a second time and Bind has ended with res
BindAgainDone(res) ==
    /\ r' = res.req
    /\ rebound' = <<[outcome |-> res.outcome, err |-> res.err, s |-> res.s]>>
    /\ pc' = IF res.outcome = "panic" THEN "panic" ELSE "rebound"

\* after Bind returned, the handler calls Bind(r, &second) on the same
\* request, second a fresh value of the type of target
BindAgain ==
    /\ pc = "bound"
    /\ BindAgainDone(Bind(r, NewTarget(target.fields)))
    /\ UNCHANGED <<idx, ru, trace, writes, afterPanic, target, bound, readBack>>
    /\ UNCHANGED <<peer, shutdown, server, caller>>
    /\ UNCHANGED configVars

NextBindTwice ==
    \/ BindCall
    \/ BindAgain

SpecBindTwice == InitBind /\ [][NextBindTwice]_vars

\* StartServer and the callers of Shutdown, every interleaving
SrvShutdownOutcomes == {"ok", "timeout"}

NextShutdown ==
    \/ StartServer
    \/ Select
    \/ Signal
    \/ SrvShutdown(SrvShutdownOutcomes)
    \/ Close
    \/ \E c \in Callers : CallShutdown(c)
    \/ \E c \in Callers : ShutdownSend(c)
    \/ \E c \in Callers : ShutdownReceive(c)

SpecShutdown == Init /\ [][NextShutdown]_vars

\* registration, then StartServer, then two requests served at the same
\* time: nothing is registered once the server is started
ConcRegPaths == { <<"/", "a">>, <<"/", "a", "/", ":", "n">> }
ConcReqPaths == { <<"/", "a">>, <<"/", "a", "/", "1">>, <<"/", "a", "/", "2">>, <<"/", "b">> }

NextConc ==
    \/ (server = "off" /\ Get(ConcRegPaths, MaxPreMw))
    \/ (server = "off" /\ RecoverRegistration)
    \/ (server = "off" /\ SetCommonMiddleware(MaxPreMw))
    \/ (server = "off" /\ SetCommonAfterMiddleware(MaxPreMw))
    \/ (fault = <<>> /\ StartServer)
    \/ (server # "off" /\ Receive({MethodGet}, ConcReqPaths))
    \/ PreRoutingMiddleware({"next"})
    \/ Routing
    \/ AfterRoutingMiddleware({"next"})
    \/ RunHandler({"respond", "panic"})
    \/ Return
    \/ recoverHandler
    \/ Finish
    \/ (server # "off" /\ PeerReceive({MethodGet}, ConcReqPaths))
    \/ PeerPreRoutingMiddleware
    \/ PeerRouting
    \/ PeerAfterRoutingMiddleware
    \/ PeerRunHandler({"respond", "panic"})
    \/ PeerReturn
    \/ PeerRecoverHandler
    \/ PeerFinish

SpecConc == Init /\ [][NextConc]_vars

-----------------------------------------------------------------------------
(* Properties *)

\* the request path up to and including its last "/", and the segment after
LastSlash(path) ==
    CHOOSE i \in 1..Len(path) :
        path[i] = "/" /\ \A j \in (i + 1)..Len(path) : path[j] # "/"
Directory(path) == SubSeq(path, 1, LastSlash(path))
FinalSegment(path) == SubSeq(path, LastSlash(path) + 1, Len(path))

\* a registered path with the ":" marker, its template (the path up to and
\* including the marker) and the parameter name after the marker
HasMarker(path) == \E i \in 1..Len(path) : path[i] = ":"
Marker(path) ==
    CHOOSE i \in 1..Len(path) : path[i] = ":" /\ \A j \in 1..(i - 1) : path[j] # ":"
Template(path) == IF HasMarker(path) THEN SubSeq(path, 1, Marker(path)) ELSE path
MarkerName(path) == SubSeq(path, Marker(path) + 1, Len(path))

\* the registrations whose template the request matches with its last
\* segment as the parameter, and whether the request path is registered as
\* it stands
ParamRoutes(method, path) ==
    { e \in registered :
        /\ e.method = method
        /\ HasMarker(e.path)
        /\ Template(e.path) = Append(Directory(path), ":") }
ExactRoute(method, path) == [method |-> method, path |-> path] \in registered

\* what the trace of the request in flight holds
Ran(stage) == \E i \in 1..Len(trace) : trace[i].stage = stage
Routed(outcome) ==
    \E i \in 1..Len(trace) : trace[i].stage = "routing" /\ trace[i].did = outcome
HandlerDid(did) ==
    \E i \in 1..Len(trace) : trace[i].stage = "handler" /\ trace[i].did = did
MiddlewareEvents == { i \in 1..Len(trace) : trace[i].stage \in {"pre", "route", "post"} }
NotRecover(e) == e.stage # "recover"
Stages(t) == [i \in 1..Len(t) |-> <<t[i].stage, t[i].name>>]
Tier(stage, list) == [i \in 1..Len(list) |-> <<stage, list[i]>>]

C2_OneWriteOnPanic ==
    (pc = "done" /\ Ran("recover"))
    => writes = << [contentType |-> internalServerErrorContentType,
                    statusCode |-> StatusInternalServerError,
                    data |-> internalServerErrorResponse] >>

\* C3: once a middleware of any tier has returned without calling next (or
\* has panicked before calling it), no later middleware, no route resolution
\* and no handler runs for the request.
C3_ShortCircuit ==
    \A i \in MiddlewareEvents :
        trace[i].did \in {"stop", "panic"}
        => \A j \in (i + 1)..Len(trace) : trace[j].stage = "recover"

C3_Witness ==
    /\ pc = "done"
    /\ ExactRoute(r.method, r.path)
    /\ \E i \in MiddlewareEvents :
        /\ trace[i].stage = "pre"
        /\ trace[i].did = "stop"
        /\ i < Len(commonMiddleware)

\* C4: a middleware of commonAfterMiddleware runs only after route
\* resolution found a route; for a request that matches no registration no
\* route middleware, no commonAfterMiddleware and no handler runs, and all
\* of commonMiddleware has run, in order, before route resolution writes the
\* 404 response.
C4_PostOnlyWhenRouted ==
    /\ Ran("post") => Routed("route")
    /\ ( /\ Ran("routing")
         /\ ParamRoutes(r.method, r.path) = {}
         /\ ~ExactRoute(r.method, r.path) )
       => /\ \A i \in 1..Len(trace) : trace[i].stage \notin {"route", "post", "handler"}
          /\ Len(trace) > Len(commonMiddleware)
          /\ SubSeq(Stages(trace), 1, Len(commonMiddleware)) = Tier("pre", commonMiddleware)
          /\ trace[Len(commonMiddleware) + 1].stage = "routing"
          /\ writes # <<>>
          /\ writes[1].statusCode = StatusNotFound

C4_Witness ==
    /\ pc = "done"
    /\ Routed("nomethod")
    /\ Len(commonMiddleware) >= 2
    /\ Len(commonAfterMiddleware) >= 1
    /\ router # <<>>

\* a registration of (method, path) meets an earlier one of the same method
\* and the same template
Collides(method, path) ==
    \E e \in registered : e.method = method /\ Template(e.path) = Template(path)

\* C5: a registration aborts, with the "there already route ... exists"
\* fault naming the template, only when an earlier registration has the same
\* method and the same template (/a/:n and /a/:m collide); a registration
\* that meets no such earlier one, the first one and one of the same path
\* under another method included, returns, and never one that does.
C5_SameRoute ==
    [][ /\ (fault = <<>> /\ fault' # <<>>)
           => /\ Collides(fault'[1].method, fault'[1].path)
              /\ fault'[1].msg = PanicSameRoot
              /\ fault'[1].arg = Template(fault'[1].path)
              /\ registered' = registered
              /\ router' = router
        /\ registered' # registered
           => \E e \in registered' :
                /\ e \notin registered
                /\ registered' = registered \cup {e}
                /\ ~Collides(e.method, e.path)
                /\ fault' = <<>> ]_vars

C5_Witness ==
    /\ fault # <<>>
    /\ fault[1].method = MethodGet
    /\ fault[1].path = <<"/", "a", "/", ":", "m">>
    /\ [method |-> MethodGet, path |-> <<"/", "a", "/", ":", "n">>] \in registered
    /\ [method |-> MethodPost, path |-> <<"/", "a", "/", ":", "n">>] \in registered

\* the request resolved to the registration e with its last segment as the
\* value of the parameter
ResolvedTo(e) ==
    /\ Routed("route")
    /\ ru # <<>>
    /\ ru[1].handler = HandlerFor(e.method, e.path)
    /\ r.pathParam = <<[name |-> MarkerName(e.path), value |-> FinalSegment(r.path)]>>

\* C6 (amended): with a route P/:name registered for the method, P not
\* empty, route resolution of a request P/v resolves to that route with
\* name = v for every last segment v, the empty one included: P/ is a
\* parameter match with name = "" and not a no-route outcome. With P empty
\* (a route /:name) a request /v is never a parameter match: only the
\* request /: reaches the route, as it stands and without a parameter.
C6_ParamResolution ==
    Ran("routing")
    => \A e \in ParamRoutes(r.method, r.path) :
        IF Len(Directory(r.path)) > 1
        THEN ResolvedTo(e)
        ELSE /\ r.pathParam = <<>>
             /\ (ru # <<>> /\ ru[1].handler = HandlerFor(e.method, e.path))
                => r.path = Template(e.path)

C6_Witness ==
    /\ pc = "done"
    /\ Routed("route")
    /\ ParamRoutes(r.method, r.path) # {}
    /\ Len(Directory(r.path)) > 1
    /\ FinalSegment(r.path) = <<>>
    /\ r.pathParam # <<>>
    /\ r.pathParam[1].value = <<>>

\* C6 (as stated): with a route P/:name registered, P not empty, and no
\* literal route for the request path, a request P/v with v not empty
\* resolves to that route with name = v, and a request P/ is no parameter
\* match and ends in the no-route outcome when P/ is not registered itself.
C6_EmptySegmentNoRoute ==
    Ran("routing")
    => \A e \in ParamRoutes(r.method, r.path) :
        Len(Directory(r.path)) > 1
        => /\ (FinalSegment(r.path) # <<>> /\ ~ExactRoute(r.method, r.path))
              => ResolvedTo(e)
           /\ FinalSegment(r.path) = <<>>
              => /\ r.pathParam = <<>>
                 /\ ~ExactRoute(r.method, r.path) => Routed("nomethod")

\* C7: with a route P/:name registered (as GET /friend/:number), a request
\* P/ with the parameter segment empty is dispatched to the handler of that
\* route; when the handler binds the request, the field tagged with the
\* parameter stays at its zero value, Bind returns no error and the handler
\* writes its success response.
C7_EmptyParamBinds ==
    Ran("routing")
    => \A e \in ParamRoutes(r.method, r.path) :
        (Len(Directory(r.path)) > 1 /\ FinalSegment(r.path) = <<>>)
        => /\ Routed("route")
           /\ ru[1].handler = HandlerFor(e.method, e.path)
           /\ HandlerDid("bind")
              => /\ bound = [outcome |-> "nil", err |-> NilError]
                 /\ target.fields[1].param = MarkerName(e.path)
                 /\ target.vals = <<Value(FALSE, ZeroNumeral, <<>>)>>
                 /\ writes # <<>>
                 /\ writes[1] = [contentType |-> ContentTypeJSON, statusCode |-> StatusOK,
                                 data |-> "ok"]

C7_Witness ==
    /\ pc = "done"
    /\ HandlerDid("bind")
    /\ r.method = MethodGet
    /\ r.path = <<"/", "a", "/">>
    /\ bound.outcome = "nil"
    /\ Len(writes) = 1

C9_NoMethodResponse ==
    /\ [] ( ( /\ Ran("routing")
              /\ ParamRoutes(r.method, r.path) = {}
              /\ ~ExactRoute(r.method, r.path) )
            => /\ Routed("nomethod")
               /\ writes # <<>>
               /\ writes[1] = [contentType |-> noMethodContentType,
                               statusCode |-> StatusNotFound,
                               data |-> noMethodResponse]
               /\ ~Ran("recover") => Len(writes) = 1 )
    /\ [][ /\ <<noMethodContentType, noMethodResponse>>' #
                <<noMethodContentType, noMethodResponse>>
              => UNCHANGED <<internalServerErrorContentType, internalServerErrorResponse>>
           /\ <<internalServerErrorContentType, internalServerErrorResponse>>' #
                <<internalServerErrorContentType, internalServerErrorResponse>>
              => UNCHANGED <<noMethodContentType, noMethodResponse>> ]_vars

C9_Witness ==
    /\ pc = "done"
    /\ Routed("nomethod")
    /\ r.method = MethodPost
    /\ [method |-> MethodGet, path |-> r.path] \in registered
    /\ noMethodContentType = ContentTypePlainText
    /\ internalServerErrorContentType = ContentTypeJSON
    /\ Len(writes) = 1

\* C10: whatever the content type of the request and however Bind ended,
\* reading r.Body after Bind returns exactly the body the client sent.
C10_BodyReadableAfterBind ==
    readBack # <<>> => readBack[1] = r.sent

-----------------------------------------------------------------------------
(* Properties of the request binder *)

\* Bind has been called and has returned
Returned == bound.outcome \in {"nil", "err"}

\* the name a field is read by from the path parameters, the query or the form
SourceName(f) ==
    IF f.param # <<>> THEN f.param ELSE IF f.query # <<>> THEN f.query ELSE f.form

\* the request as sent holds no value for a field tagged param, query or
\* form: no path parameter, query key or form key of its name
Absent(f) ==
    /\ f.json = <<>>
    /\ \/ /\ f.param # <<>>
          /\ r.pathParam # <<>>
          /\ r.pathParam[1].name # f.param
       \/ /\ f.param = <<>>
          /\ f.query # <<>>
          /\ f.query \notin DOMAIN r.query
       \/ /\ f.param = <<>>
          /\ f.query = <<>>
          /\ f.form # <<>>
          /\ f.form \notin DOMAIN r.query
          /\ f.form \notin DOMAIN ParseQuery(r.sent).values

\* the error Bind returned blames the conversion of the text read for name
BlamesConversion(name) ==
    /\ errorsAs(bound.err, "ErrRequestFieldFormat")
    /\ ~errorsAs(bound.err, "json.UnmarshalTypeError")
    /\ errorsTarget(bound.err, "ErrRequestFieldFormat").field = name

\* C11: once Bind has returned, every field tagged query, form or param
\* whose source value is absent from the request is as it was before the
\* call (a value at its zero value, a pointer nil), and the error Bind
\* returned, if any, is not a conversion error of that field.
C11_AbsentUntouched ==
    Returned
    => \A i \in 1..Len(target.fields) :
        Absent(target.fields[i])
        => /\ target.vals[i] = ZeroValue(target.fields[i])
           /\ ~BlamesConversion(SourceName(target.fields[i]))

\* the request holds a value for a field tagged query or form, and the
\* value is the empty text
EmptySource(f) ==
    /\ f.json = <<>>
    /\ f.param = <<>>
    /\ \/ /\ f.query # <<>>
          /\ f.query \in DOMAIN r.query
          /\ r.query[f.query][1] = <<>>
       \/ /\ f.query = <<>>
          /\ f.form # <<>>
          /\ r.form # <<>>
          /\ f.form \in DOMAIN r.form[1]
          /\ r.form[1][f.form][1] = <<>>

\* Bind returned an error before its field loop came to field i: the
\* content type, the body or the form was refused, or an earlier field was
FailedBefore(i) ==
    \/ bound.err = ErrUnsupportedContentType
    \/ errorsAs(bound.err, "ErrRequestJsonSyntaxError")
    \/ errorsAs(bound.err, "ErrRequestJsonSomethingInvalid")
    \/ errorsAs(bound.err, "json.UnmarshalTypeError")
    \/ errorsAs(bound.err, "ErrRequestFormParse")
    \/ \E j \in 1..(i - 1) : BlamesConversion(SourceName(target.fields[j]))

\* the error is an ErrBind that wraps a field-format error naming the field,
\* caused by the conversion of its text
FieldFormatOf(err, name) ==
    /\ Len(err) > 2
    /\ err[1].type = "ErrBind"
    /\ err[2].type = "ErrRequestFieldFormat"
    /\ err[2].field = name
    /\ err[3].type = "strconv.NumError"

C12_WitnessString ==
    /\ Returned
    /\ \E i \in 1..Len(target.fields) :
        /\ EmptySource(target.fields[i])
        /\ target.fields[i].type = "string"
        /\ target.fields[i].ptr
        /\ target.vals[i] = Value(FALSE, ZeroNumeral, <<>>)

\* Bind has returned after handing the body to the JSON decoder: the
\* content type passed the gate, the request is no form request and the
\* body is not empty
Decoded ==
    /\ Returned
    /\ r.sent # ""
    /\ ~isFormRequest(r)
    /\ bound.err # ErrUnsupportedContentType

\* the value the body holds for field i of the target
Sent(i) == JsonObject(r.sent)[JsonKey(target.fields[i])]
Holds(i) == JsonValid(r.sent) /\ JsonKey(target.fields[i]) \in DOMAIN JsonObject(r.sent)

BuiltIn(type) == type \in {"string"} \cup SignedTypes \cup UnsignedTypes

\* the body holds a text for a number field or a number for a text field
BuiltInMismatch(i) ==
    /\ Holds(i)
    /\ BuiltIn(target.fields[i].type)
    /\ (target.fields[i].type = "string") # (Sent(i).t = "string")

\* the body holds a value the decoder of the field's own type refuses
CustomRefuses(i) ==
    /\ Holds(i)
    /\ target.fields[i].type \in TextUnmarshalers \cup JsonUnmarshalers
    /\ Sent(i).t = "string" => Sent(i).str \notin WellFormed

\* the error is an ErrBind that wraps exactly the kind
IsKind(err, kind) ==
    /\ Len(err) > 1
    /\ err[1].type = "ErrBind"
    /\ err[2].type = kind

TypeErrorOnCustom(i) ==
    /\ CustomRefuses(i)
    /\ Sent(i).t # "string"
    /\ target.fields[i].type # "time.Time"

C13_WitnessInvalid ==
    /\ Decoded
    /\ \E i \in 1..Len(target.fields) : CustomRefuses(i) /\ ~TypeErrorOnCustom(i)
    /\ IsKind(bound.err, "ErrRequestJsonSomethingInvalid")
C13_WitnessSyntax ==
    /\ Decoded
    /\ r.sent = BodyJSONTruncated
    /\ IsKind(bound.err, "ErrRequestJsonSyntaxError")

\* the kinds of error an ErrBind wraps
BindErrorKinds ==
    {"ErrRequestJsonSyntaxError", "ErrRequestFieldFormat",
     "ErrRequestJsonSomethingInvalid", "ErrRequestFormParse"}

\* C14: an error Bind returns is either the unsupported-content-type error,
\* which wraps nothing and is no ErrBind, or an ErrBind whose Unwrap is one
\* of the four bind error kinds; no second kind is in the chain, the kind
\* wraps a cause, and errors.As finds both the kind and the cause from the
\* returned error.
C14_ErrorTaxonomy ==
    bound.outcome = "err"
    => \/ /\ bound.err = ErrUnsupportedContentType
          /\ Unwrap(bound.err) = NilError
          /\ ~errorsAs(bound.err, "ErrBind")
          /\ \A k \in BindErrorKinds : ~errorsAs(bound.err, k)
       \/ /\ bound.err[1].type = "ErrBind"
          /\ Unwrap(bound.err) # NilError
          /\ Unwrap(bound.err)[1].type \in BindErrorKinds
          /\ Cardinality({ k \in BindErrorKinds : errorsAs(bound.err, k) }) = 1
          /\ Unwrap(Unwrap(bound.err)) # NilError
          /\ Unwrap(Unwrap(bound.err))[1].type \notin BindErrorKinds \cup {"ErrBind"}
          /\ errorsAs(bound.err, Unwrap(Unwrap(bound.err))[1].type)

\* Bind has returned a form-parse error whose cause errors.As finds two
\* levels below the ErrBind
C14_Witness ==
    /\ bound.outcome = "err"
    /\ Unwrap(bound.err) # NilError
    /\ Unwrap(bound.err)[1].type = "ErrRequestFormParse"
    /\ errorsAs(bound.err, "url.EscapeError")

\* the request declares a content type that starts with neither
\* application/x-www-form-urlencoded nor application/json
OtherContentType ==
    /\ r.contentType # <<>>
    /\ r.contentType[1] \notin {ContentTypeFormURLEnc, ContentTypeJSON}

\* C15: once Bind has been called, it has returned the unsupported-content-
\* type error, which is no ErrBind, exactly when the request declares a
\* content type that starts with neither the form type nor the JSON type (a
\* request without a content type passes); and when it has, the target is
\* as it was before the call, no form was parsed, and the body is unread
\* until the handler reads it.
C15_ContentTypeGate ==
    bound.outcome # "none"
    => /\ (bound.outcome = "err" /\ bound.err = ErrUnsupportedContentType)
          <=> OtherContentType
       /\ OtherContentType
          => /\ ~errorsAs(bound.err, "ErrBind")
             /\ target.vals = [i \in 1..Len(target.fields) |-> ZeroValue(target.fields[i])]
             /\ pc = "bound" => r.body = Reader(r.sent)
             /\ r.postForm = <<>>
             /\ r.form = <<>>

\* a text/plain request with a body that would fill the target has been
\* refused, and so has one bound to a target that is no struct
C15_Witness ==
    /\ bound.outcome = "err"
    /\ bound.err = ErrUnsupportedContentType
    /\ r.contentType = <<ContentTypePlainText>>
    /\ \/ r.sent = BodyJSONQuery /\ target.kind = "struct" /\ Len(target.fields) = 1
       \/ target.kind # "struct"

\* a request without a content type has passed the gate
C15_WitnessNoContentType ==
    /\ bound.outcome = "nil"
    /\ r.contentType = <<>>
    /\ r.sent # ""

\* Bind has returned on a request that passes the content type gate and has
\* no body, and whose query holds a text for the one field of the target, a
\* field tagged query
Converted ==
    /\ Returned
    /\ ~OtherContentType
    /\ r.sent = ""
    /\ target.kind = "struct"
    /\ Len(target.fields) = 1
    /\ target.fields[1].query # <<>>
    /\ target.fields[1].query \in DOMAIN r.query

\* the text converted, and the field it is converted for
Token == r.query[target.fields[1].query][1]
Slot == target.fields[1]

C16_WitnessJsonOnly ==
    /\ Converted
    /\ Slot.type \in JsonUnmarshalers \ TextUnmarshalers
    /\ bound.outcome = "nil"
    /\ target.vals[1].str # <<>>

\* a text that denotes an integer in base 10: digits, after at most one sign
Unsigned(s) == s # <<>> /\ \A i \in 1..Len(s) : s[i] \in Digits
IsInteger(s) ==
    /\ s # <<>>
    /\ Unsigned(IF s[1] \in {"+", "-"} THEN Tail(s) ELSE s)

\* the magnitude of the integer, and the numeral of the integer
Magnitude(s) == StripZeros(IF s[1] \in {"+", "-"} THEN Tail(s) ELSE s)
Denoted(s) ==
    IF s[1] = "-" /\ Magnitude(s) # <<"0">> THEN <<"-">> \o Magnitude(s) ELSE Magnitude(s)

\* the largest value of an integer type, and the magnitude of its smallest
Largest(type) ==
    CASE type = "int8" -> <<"1", "2", "7">>
      [] type = "int16" -> <<"3", "2", "7", "6", "7">>
      [] type = "int32" -> <<"2", "1", "4", "7", "4", "8", "3", "6", "4", "7">>
      [] type \in {"int64", "int"} -> <<"9", "2", "2", "3", "3", "7", "2", "0", "3", "6", "8", "5", "4", "7", "7", "5", "8", "0", "7">>
      [] type = "uint8" -> <<"2", "5", "5">>
      [] type = "uint16" -> <<"6", "5", "5", "3", "5">>
      [] type = "uint32" -> <<"4", "2", "9", "4", "9", "6", "7", "2", "9", "5">>
      [] type \in {"uint64", "uint"} -> <<"1", "8", "4", "4", "6", "7", "4", "4", "0", "7", "3", "7", "0", "9", "5", "5", "1", "6", "1", "5">>
SmallestMagnitude(type) ==
    CASE type = "int8" -> <<"1", "2", "8">>
      [] type = "int16" -> <<"3", "2", "7", "6", "8">>
      [] type = "int32" -> <<"2", "1", "4", "7", "4", "8", "3", "6", "4", "8">>
      [] type \in {"int64", "int"} -> <<"9", "2", "2", "3", "3", "7", "2", "0", "3", "6", "8", "5", "4", "7", "7", "5", "8", "0", "8">>
      [] type \in UnsignedTypes -> <<"0">>

\* the integer a text denotes lies within the range of the type
InRange(type, s) ==
    IF s[1] = "-"
    THEN ~DigitsLess(SmallestMagnitude(type), Magnitude(s))
    ELSE ~DigitsLess(Largest(type), Magnitude(s))

\* what Bind has done with the text converted for a field of an integer
\* type: nothing is stored on a failure
Stored == bound.outcome = "nil" /\ target.vals[1] = Value(FALSE, Denoted(Token), <<>>)
Refused ==
    /\ bound.outcome = "err"
    /\ FieldFormatOf(bound.err, Slot.query)
    /\ target.vals[1] = ZeroValue(Slot)

\* the conversion as the claim C17 states it: every text that denotes an
\* integer within the range of the type is stored, whatever the type
C17_IntegerInRange ==
    (Converted /\ Slot.type \in SignedTypes \cup UnsignedTypes)
    => IF IsInteger(Token) /\ InRange(Slot.type, Token) THEN Stored ELSE Refused

\* the texts the conversion reads as a number of the type: a signed type
\* takes digits after at most one sign, an unsigned type takes digits only
Parseable(type, s) == IF type \in UnsignedTypes THEN Unsigned(s) ELSE IsInteger(s)

\* C17: for every integer type (int8 to int64, uint8 to uint64, and int and
\* uint at 64 bits) and every text, the conversion stores the integer the
\* text denotes exactly when the text is digits in base 10, after at most
\* one sign for a signed type and without a sign for an unsigned one, and
\* the integer lies within the range of the type. Otherwise Bind returns a
\* field-format error wrapping the error of strconv and the field keeps its
\* zero value: nothing truncated or wrapped is stored.
C17_ParsedInRange ==
    (Converted /\ Slot.type \in SignedTypes \cup UnsignedTypes)
    => IF Parseable(Slot.type, Token) /\ InRange(Slot.type, Token) THEN Stored ELSE Refused

\* a uint8 field has refused 256 as out of range
C17_Witness ==
    /\ Converted
    /\ Slot.type = "uint8"
    /\ Token = <<"2", "5", "6">>
    /\ Refused
    /\ errorsAs(bound.err, "strconv.ErrRange")

\* an int8 field has stored -128, and a field of an unsigned type has
\* refused a text with a sign that denotes a value of its range
C17_WitnessSmallest ==
    /\ Converted
    /\ Slot.type = "int8"
    /\ Token = <<"-", "1", "2", "8">>
    /\ Stored
C17_WitnessSigned ==
    /\ Converted
    /\ Slot.type \in UnsignedTypes
    /\ IsInteger(Token) /\ InRange(Slot.type, Token)
    /\ Refused
    /\ errorsAs(bound.err, "strconv.ErrSyntax")

\* field i of the target is a configuration fault for the request: it has
\* no tag that Bind knows, or it is tagged form and the request is not
\* form-encoded
Faulty(i) ==
    LET f == target.fields[i] IN
    /\ f.json = <<>>
    /\ f.param = <<>>
    /\ f.query = <<>>
    /\ f.form # <<>>
       => r.contentType = <<>> \/ r.contentType[1] # ContentTypeFormURLEnc
FirstFault(i) == Faulty(i) /\ \A j \in 1..(i - 1) : ~Faulty(j)

\* Bind has been called on a struct with a faulty field
CalledWithFault ==
    /\ bound.outcome # "none"
    /\ target.kind = "struct"
    /\ \E i \in 1..Len(target.fields) : Faulty(i)

C18_WitnessEarlierField ==
    /\ CalledWithFault
    /\ bound.outcome = "err"
    /\ ~OtherContentType
    /\ r.sent = ""
    /\ \E i \in 1..Len(target.fields) : FirstFault(i) /\ target.fields[i].form = <<>>

\* the request as it was handed to the first call of Bind, with another
\* body, and with another query
Arrived == [r EXCEPT !.body = Reader(r.sent), !.postForm = <<>>, !.form = <<>>]
WithBody(b) == [Arrived EXCEPT !.body = Reader(b), !.sent = b]
WithQuery(q) == [Arrived EXCEPT !.query = q]

\* the fields of one of the tags hold the same values in the target and
\* after the Bind that ended with other, when that Bind returned nil too
SameFields(other, tags) ==
    other.outcome = "nil"
    => \A i \in 1..Len(target.fields) :
        ( /\ target.fields[i].json = <<>>
          /\ \/ "param" \in tags /\ target.fields[i].param # <<>>
             \/ "query" \in tags /\ target.fields[i].param = <<>> /\ target.fields[i].query # <<>>
             \/ /\ "form" \in tags
                /\ target.fields[i].param = <<>>
                /\ target.fields[i].query = <<>>
                /\ target.fields[i].form # <<>> )
        => other.s.vals[i] = target.vals[i]

\* C25 (as stated): when Bind has returned nil, a Bind of the same request
\* with any other body that returns nil too gives every field tagged query
\* or param the same value; and for a form request a Bind of the same request
\* with any other URL query gives every field tagged form the same value.
C25_OwnSourceOnly ==
    (bound.outcome = "nil" /\ target.kind = "struct")
    => /\ \A b \in Bodies :
            SameFields(Bind(WithBody(b), NewTarget(target.fields)), {"param", "query"})
       /\ isFormRequest(r)
          => \A q \in BindQueries :
                SameFields(Bind(WithQuery(q), NewTarget(target.fields)), {"form"})

\* C26 (as stated): when the conversion of a text for a field has failed,
\* the field holds what it held before the call: a nil pointer is still nil
\* and a value still the zero value.
C26_SlotKeptOnFailure ==
    (Converted /\ bound.outcome = "err") => target.vals[1] = ZeroValue(Slot)

\* the values of the fields when the field loop of Bind starts: what the
\* decoding of the body left in them
AfterDecode ==
    IF r.sent # "" /\ ~isFormRequest(r)
    THEN jsonUnmarshal(r.sent, NewTarget(target.fields)).vals
    ELSE NewTarget(target.fields).vals

\* the field loop has a text to convert for field i, and whether the
\* conversion of that text fails
HasText(i) ==
    /\ target.fields[i].json = <<>>
    /\ fieldValue(r, target.fields[i]) # <<>>
Fails(i) ==
    /\ HasText(i)
    /\ setStrToStructField(target.fields[i], AfterDecode[i],
                           fieldValue(r, target.fields[i])[1]).err # NilError

\* Bind has returned the error of a conversion in its field loop
LoopFailed ==
    /\ bound.outcome = "err"
    /\ Len(bound.err) > 2
    /\ bound.err[2].type = "ErrRequestFieldFormat"
    /\ (r.sent # "" /\ ~isFormRequest(r))
       => jsonUnmarshal(r.sent, NewTarget(target.fields)).err = NilError

\* the field the returned error names: the first of that external name
Named ==
    CHOOSE i \in 1..Len(target.fields) :
        /\ target.fields[i].json = <<>>
        /\ SourceName(target.fields[i]) = bound.err[2].field
        /\ \A j \in 1..(i - 1) :
            target.fields[j].json # <<>> \/ SourceName(target.fields[j]) # bound.err[2].field

\* C27 (as stated): when Bind has returned the error of a conversion, the
\* error names the first field in declaration order whose conversion fails,
\* and every field declared after it holds its zero value.
C27_NothingAfterModified ==
    LoopFailed
    => /\ Fails(Named)
       /\ \A j \in 1..(Named - 1) : ~Fails(j)
       /\ \A j \in (Named + 1)..Len(target.fields) :
            target.vals[j] = ZeroValue(target.fields[j])

\* C27 (amended): when Bind has returned the error of a conversion, the
\* error names the first field in declaration order whose conversion fails;
\* every field before it that had a text holds the converted text, and
\* every field declared after it holds what the decoding of the body left
\* in it: the field loop has not come to it.
C27_StopsAtFirstFailure ==
    LoopFailed
    => /\ Fails(Named)
       /\ \A j \in 1..(Named - 1) : ~Fails(j)
       /\ \A j \in (Named + 1)..Len(target.fields) : target.vals[j] = AfterDecode[j]

\* the first of two failing fields was named, and the JSON field declared
\* after it holds the text of the body
C27_Witness ==
    /\ LoopFailed
    /\ Len(target.fields) = 3
    /\ Named = 1
    /\ Fails(3)
    /\ target.vals[2].str = <<"x">>
    /\ target.vals[3] = ZeroValue(target.fields[3])

\* C29 (as stated): a second call of Bind on the request, with a fresh
\* target of the same type, ends as the first one did: with an error of the
\* same kind, or with nil and the same value in every field.
C29_BindIdempotent ==
    rebound # <<>>
    => /\ rebound[1].outcome = bound.outcome
       /\ [i \in 1..Len(rebound[1].err) |-> rebound[1].err[i].type] =
          [i \in 1..Len(bound.err) |-> bound.err[i].type]
       /\ bound.outcome = "nil" => rebound[1].s.vals = target.vals

\* setStrToStructField of src/server/bind.go has been called on a string
\* or *string field, and the text it was handed
CoercedString == pc # "coerce" /\ Slot.type = "string"
CoerceToken == r.query[<<"q">>][1]

\* the text is enclosed in a pair of double quotes
Enclosed(t) == Len(t) > 1 /\ t[1] = "\"" /\ t[Len(t)] = "\""

\* C24 (as stated): the coercion of a text into a string or *string field
\* does not fail, and the field then holds the text itself, or the text
\* without its enclosing quotes when it had them; a text that is empty
\* leaves the field as it is.
C24_StringNeverFails ==
    CoercedString
    => /\ bound.outcome = "nil"
       /\ CoerceToken = <<>> => target.vals[1] = ZeroValue(Slot)
       /\ CoerceToken # <<>>
          => \/ target.vals[1] = Value(FALSE, ZeroNumeral, CoerceToken)
             \/ /\ Enclosed(CoerceToken)
                /\ target.vals[1] =
                     Value(FALSE, ZeroNumeral, SubSeq(CoerceToken, 2, Len(CoerceToken) - 1))

-----------------------------------------------------------------------------
(* Properties of the path parameter table *)

\* C19: once route resolution has matched a route, the request carries a
\* path parameter table exactly when the matched route has a path
\* parameter, and the table is the one entry from the name of the parameter
\* to the last segment of the request path; and a Bind of a field tagged
\* param on a request without a table has panicked.
C19_TableIffParamRoute ==
    Routed("route")
    => /\ r.pathParam # <<>> <=> ru[1].pathParamName # <<>>
       /\ r.pathParam # <<>>
          => r.pathParam = <<[name |-> ru[1].pathParamName, value |-> FinalSegment(r.path)]>>
       /\ (/\ HandlerDid("bind")
           /\ r.pathParam = <<>>
           /\ \E i \in 1..Len(target.fields) : target.fields[i].param # <<>>)
          => bound.outcome = "panic"

-----------------------------------------------------------------------------
(* Properties of the request lifecycle *)

\* the place of a stage in the lifecycle of a request
Rank(stage) ==
    CASE stage = "pre" -> 1
      [] stage = "routing" -> 2
      [] stage = "route" -> 3
      [] stage = "post" -> 4
      [] stage = "handler" -> 5
      [] stage = "recover" -> 6

\* the stages of the request in flight ran in the order of the lifecycle,
\* none of them twice; the stages of a route ran only after route
\* resolution found one, and none after the no-route response
Ordered ==
    /\ \A i, j \in 1..Len(trace) :
        i < j => /\ Rank(trace[i].stage) <= Rank(trace[j].stage)
                 /\ <<trace[i].stage, trace[i].name>> # <<trace[j].stage, trace[j].name>>
    /\ \A i \in 1..Len(trace) :
        trace[i].stage \in {"route", "post", "handler"} => Routed("route")
    /\ Routed("nomethod")
        => /\ ~Ran("handler")
           /\ writes # <<>>
           /\ writes[1].statusCode = StatusNotFound

\* the steps between the places of the goroutine: none leads back
Forward ==
    <<pc, pc'>> \in
        { <<"idle", "idle">>, <<"idle", "pre">>,
          <<"pre", "pre">>, <<"pre", "after">>, <<"pre", "return">>, <<"pre", "panic">>,
          <<"after", "after">>, <<"after", "return">>, <<"after", "panic">>,
          <<"return", "done">>, <<"return", "panic">>,
          <<"panic", "done">>,
          <<"done", "idle">> }

\* a step within a stage goes on to the next handler of the chain, and the
\* stages that ran are never taken back
Progress ==
    /\ (pc' = pc /\ pc \in {"pre", "after"}) => idx' = idx + 1
    /\ pc # "done"
        => /\ Len(trace') >= Len(trace)
           /\ SubSeq(trace', 1, Len(trace)) = trace

\* the request ends with a response: after a panic, and only then, the
\* recovered one, the internal server error written by recoverHandler;
\* else the one of the handler, the no-route response, or the one of the
\* middleware that did not call next
Panicked ==
    \E i \in 1..Len(trace) :
        trace[i].did \in {"panic", "next_then_panic", "respond_then_panic"}
Ended ==
    pc = "done"
    => /\ Ran("recover") <=> Panicked
       /\ IF Ran("recover")
          THEN /\ trace[Len(trace)].stage = "recover"
               /\ writes[Len(writes)].statusCode = StatusInternalServerError
          ELSE \/ HandlerDid("respond") /\ writes[Len(writes)].statusCode = StatusOK
               \/ Routed("nomethod") /\ trace[Len(trace)].stage = "routing"
               \/ trace[Len(trace)].did = "stop"

\* C20: a request goes through its lifecycle in one direction: received,
\* the common middleware, route resolution, then either the no-route
\* response or the middleware of the route, the common after middleware and
\* the handler; no stage runs twice and no step leads back; and every
\* request received comes to its end, where the response is the one the
\* chain wrote or, after a panic, the one recoverHandler wrote.
C20_Lifecycle ==
    /\ [][Forward /\ Progress]_vars
    /\ [](Ordered /\ Ended)
    /\ (pc = "pre" ~> pc = "done")

\* a request has gone through every stage and has ended in the recovered
\* response
C20_Witness ==
    /\ pc = "done"
    /\ Ran("pre") /\ Ran("routing") /\ Ran("route") /\ Ran("post") /\ Ran("handler")
    /\ Ran("recover")

-----------------------------------------------------------------------------
(* Properties of the setup phase *)

\* the entry of the route table a registration that returned was stored under
KeyOf(e) == RouteKey(e.method, Template(e.path))

\* a step keeps every entry of the route table as it is
RoutesKept ==
    \A k \in DOMAIN router : k \in DOMAIN router' /\ router'[k] = router[k]

\* a step keeps every middleware of the list in the list
ListKept(old, new) ==
    \A i \in 1..Len(old) : \E j \in 1..Len(new) : new[j] = old[i]

\* every registration that returned has its entry, with its handler and the
\* parameter name it was written with
RoutesPresent ==
    \A e \in registered :
        /\ KeyOf(e) \in DOMAIN router
        /\ router[KeyOf(e)].handler = HandlerFor(e.method, e.path)
        /\ router[KeyOf(e)].pathParamName =
                (IF HasMarker(e.path) THEN MarkerName(e.path) ELSE <<>>)

\* the request in flight ran the middleware of the lists in force, and
\* nothing else from a global list
ListsInForce ==
    (pc = "done" /\ Routed("route") /\ ~Ran("recover"))
    => /\ SelectSeq(Stages(trace), LAMBDA e : e[1] = "pre") = Tier("pre", commonMiddleware)
       /\ SelectSeq(Stages(trace), LAMBDA e : e[1] = "post") = Tier("post", commonAfterMiddleware)

\* C22 (as stated): the route table and the global middleware lists only
\* grow during setup: every step keeps every route and every global
\* middleware registered before it, and they take part in dispatch.
C22_AppendOnly ==
    /\ [][ /\ RoutesKept
           /\ ListKept(commonMiddleware, commonMiddleware')
           /\ ListKept(commonAfterMiddleware, commonAfterMiddleware') ]_vars
    /\ [](RoutesPresent /\ ListsInForce)

\* C22 (amended): the route table only grows: every step keeps every entry,
\* and every registration that returned stays dispatchable with its handler.
\* A global middleware list is not added to: it always is the argument list
\* of one call (the last one), a step that changes one list leaves the other
\* list and the route table alone, and a request runs exactly the lists in
\* force.
C22_RoutesKeptListsReplaced ==
    /\ [][ /\ RoutesKept
           /\ commonMiddleware' # commonMiddleware
              => UNCHANGED <<router, commonAfterMiddleware>>
           /\ commonAfterMiddleware' # commonAfterMiddleware
              => UNCHANGED <<router, commonMiddleware>> ]_vars
    /\ [] ( /\ commonMiddleware \in MwList("pre", MaxPreMw)
            /\ commonAfterMiddleware \in MwList("post", MaxPreMw)
            /\ RoutesPresent
            /\ ListsInForce )

\* a request went through both global lists to the handler of one of two
\* registered routes
C22_Witness ==
    /\ pc = "done"
    /\ Cardinality(registered) = 2
    /\ HandlerDid("respond")
    /\ commonMiddleware # <<>>
    /\ commonAfterMiddleware # <<>>
    /\ Ran("pre")
    /\ Ran("post")

\* C28 (as stated): every route stored under a template that ends in the
\* marker has a parameter name, every other route has none, and route
\* resolution never panics.
C28_NameNeverEmpty ==
    /\ \A k \in DOMAIN router :
            (k.path # <<>> /\ k.path[Len(k.path)] = ":") <=> router[k].pathParamName # <<>>
    /\ ~Routed("panic")

\* a step in which a registration aborts as a duplicate
DuplicateAborts == fault = <<>> /\ fault' # <<>>

\* C30: a registration that aborts as a duplicate leaves the route table and
\* the record of registrations as they were; the entry of its (method,
\* template) still holds the handler, the middleware list and the parameter
\* name of the first registration, and requests are dispatched to it.
C30_DuplicateLeavesTable ==
    /\ [][DuplicateAborts => (router' = router /\ registered' = registered)]_vars
    /\ [] ( /\ RoutesPresent
            /\ fault # <<>>
               => \E e \in registered :
                    /\ KeyOf(e) = RouteKey(fault[1].method, fault[1].arg)
                    /\ router[KeyOf(e)].handler = HandlerFor(e.method, e.path)
            /\ (Routed("route") /\ ru # <<>>)
               => \E e \in registered :
                    /\ ru[1] = router[KeyOf(e)]
                    /\ ru[1].handler = HandlerFor(e.method, e.path) )

\* /a/:m was refused after /a/:n had been registered with a middleware
C30_Witness ==
    /\ fault # <<>>
    /\ fault[1].path = <<"/", "a", "/", ":", "m">>
    /\ [method |-> fault[1].method, path |-> <<"/", "a", "/", ":", "n">>] \in registered
    /\ router[RouteKey(fault[1].method, fault[1].arg)].middleware # <<>>

\* a request was dispatched to the first registration after a duplicate
\* had been refused and recovered
C30_WitnessDispatched ==
    /\ pc = "done"
    /\ HandlerDid("respond")
    /\ ru[1].handler = HandlerFor(MethodGet, <<"/", "a", "/", ":", "n">>)
    /\ r.pathParam # <<>>

-----------------------------------------------------------------------------
(* Properties of StartServer and Shutdown *)

\* C23: a call of Shutdown has returned only when StartServer has run its
\* graceful shutdown and closed the shutdown channel
C23_ReturnsAfterClose ==
    \A c \in Callers : caller[c] = "returned" =>
        /\ shutdown.closed
        /\ server \in {"returned", "crashed"}

-----------------------------------------------------------------------------
(* Properties of concurrent requests *)

\* the stages a request runs when it is the only one in flight: what
\* recoverHandler builds from the configuration for this request
AloneChain(req) ==
    LET res == routingHandler(req) IN
           Tier("pre", commonMiddleware)
        \o << <<"routing", <<"-", 0>> >> >>
        \o IF res.outcome = "route"
           THEN    Tier("route", res.ru[1].middleware)
                \o Tier("post", commonAfterMiddleware)
                \o << <<"handler", <<"-", 0>> >> >>
           ELSE <<>>

IsPrefix(s, t) == Len(s) <= Len(t) /\ s = SubSeq(t, 1, Len(s))

\* the goroutine at position at, serving req with route rt after the stages
\* of t, is where the request would be when handled alone
AsAlone(at, req, rt, t) ==
    LET res == routingHandler(req)
        ran == Stages(SelectSeq(t, NotRecover))
    IN  /\ IsPrefix(ran, AloneChain(req))
        /\ at = "done" /\ t[Len(t)].stage # "recover" => ran = AloneChain(req)
        /\ at \in {"after", "return", "done", "panic"}
                /\ (\E i \in 1..Len(t) : t[i].stage = "routing")
            => /\ rt = res.ru
               /\ req.pathParam = res.pathParam

Isolated ==
    /\ pc # "idle" => AsAlone(pc, r, ru, trace)
    /\ peer.pc # "idle" => AsAlone(peer.pc, peer.r, peer.ru, peer.trace)

ServingOnlyReads ==
    [][server # "off" =>
            UNCHANGED <<router, commonMiddleware, commonAfterMiddleware,
                        noMethodResponse, noMethodContentType,
                        internalServerErrorResponse,
                        internalServerErrorContentType>>]_vars

\* C21: once the server is started, no step of request handling changes the
\* route table, the global middleware lists or the response configuration;
\* and with two requests in flight, however their steps interleave, each
\* runs the stages, finds the route and holds the path parameter value it
\* would when handled alone
C21_ConcurrentAsAlone == []Isolated /\ ServingOnlyReads

C21_Witness ==
    /\ pc = "return"
    /\ peer.pc = "return"
    /\ r.pathParam # <<>>
    /\ peer.r.pathParam # <<>>
    /\ r.pathParam[1].value # peer.r.pathParam[1].value
    /\ getPathParamVal(r, ru[1].pathParamName).val = <<"1">>
    /\ getPathParamVal(peer.r, peer.ru[1].pathParamName).val = <<"2">>
    /\ Len(trace) > 2
    /\ Stages(trace) = Stages(peer.trace)

====
